---- MODULE Spec2Model ----
(***************************************************************************)
(* State-machine model of PluginSettingsManagerBase                        *)
(* (src/src/obsidian/Plugin/PluginSettingsManagerBase.ts).                 *)
(*                                                                         *)
(* defaultSettings is the manager's defaultSettings object as it is now,   *)
(* callerSettings a settings object that a caller of the manager holds.    *)
(* JavaScript values are tagged records:                                   *)
(*   [t |-> "undefined"], [t |-> "null"], [t |-> "number", n |-> 3],       *)
(*   [t |-> "string", s |-> "x"], [t |-> "date", d |-> 0],                 *)
(*   [t |-> "object", o |-> f]  (f maps own enumerable keys to values),    *)
(*   [t |-> "promise", v |-> r] (a Promise that resolves to r),            *)
(*   [t |-> "ref", p |-> "since"] (the very object that is the value of    *)
(*   defaultSettings[p], as opposed to a copy of it).                      *)
(* The manager is instantiated with the schema of the spec's scenario      *)
(* ({retries: 3, name: "x"}, a validator rejecting retries < 0) extended   *)
(* by a Date property and a private property.                              *)
(***************************************************************************)
EXTENDS Integers, FiniteSets, Sequences, TLC

VARIABLES currentSettingsWrapper, lastSavedSettingsWrapper, data, lastOp, prev,
          defaultSettings, callerSettings, release, chainedPromise, vault,
          temp, deletion, version, saving

vars == <<currentSettingsWrapper, lastSavedSettingsWrapper, data, lastOp, prev,
          defaultSettings, callerSettings, release, chainedPromise, vault,
          temp, deletion, version, saving>>

\* the state of the settings manager
managerVars == <<currentSettingsWrapper, lastSavedSettingsWrapper, data, lastOp, prev,
                 defaultSettings, callerSettings>>

\* what the operations of the settings manager leave alone: the state of the
\* release script, of the chained functions, of the vault functions and of a
\* saveToFile that is suspended
toolVars == <<release, chainedPromise, vault, temp, deletion, version, saving>>

(***************************************************************************)
(* Bounds                                                                  *)
(***************************************************************************)
\* largest number of properties one editor function assigns
MaxAssign == 1

\* the number of chain calls in one run
MaxChain == 3

\* the number of attempts retryWithTimeout makes before it gives up
MaxAttempts == 2

\* the depth of the deepest folder of the vault
MaxDepth == 3

\* the largest number in the version of package.json
MaxVersionPart == 2

(***************************************************************************)
(* JavaScript values                                                       *)
(***************************************************************************)
Undef == [t |-> "undefined"]

Null == [t |-> "null"]

Num(n) == [t |-> "number", n |-> n]

Str(s) == [t |-> "string", s |-> s]

Bool(b) == [t |-> "boolean", b |-> b]

DateV(d) == [t |-> "date", d |-> d]

Obj(f) == [t |-> "object", o |-> f]

PromiseOf(v) == [t |-> "promise", v |-> v]

DefaultRef(p) == [t |-> "ref", p |-> p]

\* the object a value stands for
Deref(v) == IF v.t = "ref" THEN defaultSettings.o[v.p] ELSE v

EmptyFn == [k \in {} |-> Undef]

\* the typeof operator
TypeOf(v) ==
  CASE v.t = "undefined" -> "undefined"
    [] v.t = "number" -> "number"
    [] v.t = "string" -> "string"
    [] v.t = "boolean" -> "boolean"
    [] OTHER -> "object"

\* own enumerable string keys of a value (Object.keys / Object.entries)
Keys(v) == IF v.t = "object" THEN DOMAIN v.o ELSE {}

\* property read obj[k]: undefined when obj has no such own property
Get(obj, k) == IF k \in Keys(obj) THEN obj.o[k] ELSE Undef

\* property write obj[k] = v on a plain object
Put(obj, k, v) == Obj([q \in Keys(obj) \cup {k} |-> IF q = k THEN v ELSE obj.o[q]])

\* JavaScript truthiness of the values that occur as validation messages
Truthy(v) ==
  CASE v.t = "string" -> v.s # ""
    [] v.t = "number" -> v.n # 0
    [] v.t = "boolean" -> v.b
    [] v.t \in {"undefined", "null"} -> FALSE
    [] OTHER -> TRUE

\* await x
Await(v) == IF v.t = "promise" THEN v.v ELSE v

(***************************************************************************)
(* The plugin-specific schema the manager is instantiated with             *)
(***************************************************************************)
\* createDefaultSettings(): a fresh default settings object on every call
createDefaultSettings ==
  Obj([retries |-> Num(3), name |-> Str("x"), since |-> DateV(0), _cache |-> Num(0)])

\* the expression this.defaultSettings[propertyName]: a primitive is copied
\* by an assignment, an object is shared with defaultSettings
defaultSettingsAt(propertyName) ==
  IF defaultSettings.o[propertyName].t \in {"date", "object"}
    THEN DefaultRef(propertyName)
    ELSE defaultSettings.o[propertyName]

\* getAllKeys(obj): the own keys of an object
getAllKeys(obj) == Keys(obj)

\* this.propertyNames, captured in the constructor
propertyNames == getAllKeys(createDefaultSettings)

\* the keys of this.validators after registerValidators()
validators == {"retries", "since", "name"}

\* the validators whose verdict depends on nothing but the value of their own
\* property, and which accept the default value
ownValueValidators == {"retries", "since"}

\* what the validator registered for propertyName returns for
\* (value, settings): the validator of retries returns a message or the empty
\* string, the validator of since returns a message or nothing
ValidatorReturn(propertyName, value, settings) ==
  CASE propertyName = "retries" ->
         IF value.t = "number" /\ value.n < 0
           THEN Str("retries must not be negative") ELSE Str("")
    [] propertyName = "since" ->
         IF TypeOf(value) # "object" \/ value.t = "null"
           THEN Str("since must be a date") ELSE Undef
    [] propertyName = "name" ->
         IF value = Str("y") /\ Get(settings, "retries") = Num(3)
           THEN Str("name y needs other retries") ELSE Undef
    [] OTHER -> Undef

\* the message validate collects from the validator registered for
\* propertyName, "" standing for no message
Validator(propertyName, value, settings) ==
  LET validationMessage == ValidatorReturn(propertyName, value, settings)
  IN IF Truthy(validationMessage) THEN validationMessage.s ELSE ""

(***************************************************************************)
(* Collaborators that live outside PluginSettingsManagerBase.ts            *)
(***************************************************************************)
\* the private-naming convention of SkipPrivatePropertyTransformer
IsPrivate(key) == key \in {"_cache"}

\* DateTransformer, forward: a Date becomes a serializable record
SerializedDate(d) ==
  Obj([transformerId |-> Str("DateTransformer"), transformedValue |-> Num(d)])

\* forward transformation of one property value of the default chain
TransformValue(v) == IF Deref(v).t = "date" THEN SerializedDate(Deref(v).d) ELSE v

\* DateTransformer, backward: the serializable record becomes the Date again
TransformValueBack(v) ==
  IF /\ v.t = "object"
     /\ Keys(v) = {"transformerId", "transformedValue"}
     /\ v.o["transformerId"] = Str("DateTransformer")
    THEN DateV(v.o["transformedValue"].n)
    ELSE v

\* Transformer.transformObjectRecursively: private properties are removed,
\* every other property value is transformed forward
transformObjectRecursively(record) ==
  Obj([k \in {q \in Keys(record) : ~IsPrivate(q)} |-> TransformValue(record.o[k])])

\* deepEqual(a, b) of Object.ts
RECURSIVE deepEqual(_, _)
deepEqual(a, b) ==
  IF a.t # b.t THEN FALSE
  ELSE IF a.t = "object"
    THEN /\ Keys(a) = Keys(b)
         /\ \A k \in Keys(a) : deepEqual(a.o[k], b.o[k])
    ELSE a = b

\* what JSON.stringify followed by JSON.parse makes of a value: properties
\* holding undefined are dropped, a Promise has no own properties
RECURSIVE JsonClone(_)
JsonClone(v) ==
  CASE v.t = "object" ->
         Obj([k \in {q \in Keys(v) : v.o[q].t # "undefined"} |-> JsonClone(v.o[k])])
    [] v.t = "promise" -> Obj(EmptyFn)
    [] v.t = "date" -> Str(ToString(v.d))
    [] OTHER -> v

(***************************************************************************)
(* Methods of PluginSettingsManagerBase                                    *)
(***************************************************************************)
\* validate that records whatever each validator returns
validate_keepEmpty(settings) ==
  Obj([p \in validators |-> ValidatorReturn(p, Get(settings, p), settings)])

\* validate(settings): every registered validator is called with
\* (settings[propertyName], settings); only truthy messages are collected
validate(settings) ==
  Obj([p \in {q \in validators : Truthy(ValidatorReturn(q, Get(settings, q), settings))}
         |-> ValidatorReturn(p, Get(settings, p), settings)])

\* isValidPropertyName that accepts every name
isValidPropertyName_any(prop) == TRUE

\* isValidPropertyName(prop)
isValidPropertyName(prop) == prop \in propertyNames

\* settingsToRawRecord without the transformer chain
settingsToRawRecord_noTransform(settings) ==
  Obj([p \in propertyNames |-> Get(settings, p)])

\* settingsToRawRecord(settings), awaited: one entry per property name, read
\* from the argument, then the transformer chain
settingsToRawRecord(settings) ==
  transformObjectRecursively(Obj([p \in propertyNames |-> Get(settings, p)]))

\* rawRecordToSettings that skips a value whose type differs from the default's
rawRecordToSettings_skipMismatch(rawRecord) ==
  Obj([p \in propertyNames \cup {k \in Keys(rawRecord) : isValidPropertyName(k)} |->
         IF p \in Keys(rawRecord) /\ TypeOf(rawRecord.o[p]) = TypeOf(Get(createDefaultSettings, p))
           THEN rawRecord.o[p] ELSE Get(createDefaultSettings, p)])

\* rawRecordToSettings(rawRecord), awaited: defaults overwritten by the
\* record's entries for known property names
rawRecordToSettings(rawRecord) ==
  Obj([p \in propertyNames \cup {k \in Keys(rawRecord) : isValidPropertyName(k)} |->
         IF p \in Keys(rawRecord) THEN rawRecord.o[p] ELSE createDefaultSettings.o[p]])

\* the warnings rawRecordToSettings emits
unknownProperties(rawRecord) == {k \in Keys(rawRecord) : ~isValidPropertyName(k)}

typeMismatches(rawRecord) ==
  {k \in Keys(rawRecord) :
     isValidPropertyName(k) /\ TypeOf(rawRecord.o[k]) # TypeOf(Get(defaultSettings, k))}

\* cloneSettings that awaits both conversions
cloneSettings_awaited(settings) ==
  rawRecordToSettings(JsonClone(settingsToRawRecord(settings)))

\* cloneSettings(settings): settingsToRawRecord and rawRecordToSettings are
\* async and are not awaited, so record is a Promise and so is the result
cloneSettings(settings) ==
  LET record == PromiseOf(settingsToRawRecord(settings))
      cloneRecord == JsonClone(record)
  IN PromiseOf(rawRecordToSettings(cloneRecord))

\* cloneSettingsWrapper(settingsWrapper)
cloneSettingsWrapper(settingsWrapper) ==
  [safeSettings |-> cloneSettings(settingsWrapper.safeSettings),
   settings |-> cloneSettings(settingsWrapper.settings),
   validationMessages |-> settingsWrapper.validationMessages]

\* ensureSafe that validates and assigns nothing
ensureSafe_validateOnly(settings) == settings

\* ensureSafe that resets every property
ensureSafe_resetAll(settings) ==
  IF settings.t # "object" THEN settings
  ELSE Obj([p \in Keys(settings) \cup propertyNames |->
              IF p \in propertyNames THEN defaultSettingsAt(p) ELSE settings.o[p]])

\* ensureSafe(settings): the settings object after the call. Every property
\* with a validation message is assigned this.defaultSettings[propertyName];
\* on a Promise the assignments add properties that its result does not show
ensureSafe(settings) ==
  LET validationResult == validate(settings)
      invalid == {p \in propertyNames : Truthy(Get(validationResult, p))}
  IN IF settings.t # "object" THEN settings
     ELSE Obj([p \in Keys(settings) \cup invalid |->
                 IF p \in invalid THEN defaultSettingsAt(p) ELSE settings.o[p]])

\* getSafeCopy that makes the settings safe without cloning them
getSafeCopy_noClone(settings) ==
  [arg |-> ensureSafe(settings), ret |-> ensureSafe(settings), sameObject |-> TRUE]

\* getSafeCopy(settings): arg is the argument after the call, ret what the
\* returned Promise resolves to, sameObject whether ret is the argument
getSafeCopy(settings) ==
  LET safeSettings == cloneSettings(settings)
      ensured == ensureSafe(safeSettings)
  IN [arg |-> settings, ret |-> Await(ensured), sameObject |-> FALSE]

\* createDefaultSettingsWrapper whose safeSettings start empty
createDefaultSettingsWrapper_emptySafe ==
  [safeSettings |-> Obj(EmptyFn),
   settings |-> createDefaultSettings,
   validationMessages |-> Obj(EmptyFn)]

\* createDefaultSettingsWrapper()
createDefaultSettingsWrapper ==
  [safeSettings |-> createDefaultSettings,
   settings |-> createDefaultSettings,
   validationMessages |-> Obj(EmptyFn)]

\* the wrapper as the JavaScript object it is
WrapperObject(w) ==
  Obj([safeSettings |-> w.safeSettings, settings |-> w.settings,
       validationMessages |-> w.validationMessages])

\* setPropertyImpl that stores the value in safeSettings whatever the message
setPropertyImpl_noFallback(w, propertyName, value, validationMessage) ==
  [settings |-> Put(w.settings, propertyName, value),
   validationMessages |->
     Put(w.validationMessages, propertyName,
         IF validationMessage.t \in {"undefined", "null"} THEN Str("") ELSE validationMessage),
   safeSettings |-> Put(w.safeSettings, propertyName, value)]

\* setPropertyImpl(propertyName, value, validationMessage) on wrapper w
setPropertyImpl(w, propertyName, value, validationMessage) ==
  [settings |-> Put(w.settings, propertyName, value),
   validationMessages |->
     Put(w.validationMessages, propertyName,
         IF validationMessage.t \in {"undefined", "null"} THEN Str("") ELSE validationMessage),
   safeSettings |->
     Put(w.safeSettings, propertyName,
         IF Truthy(validationMessage) THEN defaultSettingsAt(propertyName) ELSE value)]

\* the loop of loadFromFile over this.propertyNames
RECURSIVE setAll(_, _, _, _)
setAll(w, names, parsedSettings, validationResult) ==
  IF names = {} THEN w
  ELSE LET p == CHOOSE q \in names : TRUE
       IN setAll(setPropertyImpl(w, p, Get(parsedSettings, p), Get(validationResult, p)),
                 names \ {p}, parsedSettings, validationResult)

\* the loop body of edit that copies the setting into safeSettings whatever
\* the message
editProperty_noMask(w, propertyName, validationResult) ==
  LET validationMessage ==
        IF Get(validationResult, propertyName).t \in {"undefined", "null"}
          THEN Str("") ELSE Get(validationResult, propertyName)
  IN [settings |-> w.settings,
      validationMessages |-> Put(w.validationMessages, propertyName, validationMessage),
      safeSettings |-> Put(w.safeSettings, propertyName, Get(w.settings, propertyName))]

\* one iteration of the loop in the finally block of edit
editProperty(w, propertyName, validationResult) ==
  LET validationMessage ==
        IF Get(validationResult, propertyName).t \in {"undefined", "null"}
          THEN Str("") ELSE Get(validationResult, propertyName)
  IN [settings |-> w.settings,
      validationMessages |-> Put(w.validationMessages, propertyName, validationMessage),
      safeSettings |->
        Put(w.safeSettings, propertyName,
            IF Truthy(validationMessage)
              THEN defaultSettingsAt(propertyName)
              ELSE Get(w.settings, propertyName))]

\* the loop in the finally block of edit
RECURSIVE editAll(_, _, _)
editAll(w, names, validationResult) ==
  IF names = {} THEN w
  ELSE LET p == CHOOSE q \in names : TRUE
       IN editAll(editProperty(w, p, validationResult), names \ {p}, validationResult)

\* the editor function applied in place: assign maps the properties the
\* editor writes (before it returns or throws) to their new values
applyEditor(settings, assign) ==
  Obj([p \in Keys(settings) \cup DOMAIN assign |->
         IF p \in DOMAIN assign THEN assign[p] ELSE settings.o[p]])

\* edit whose re-validation pass follows the editor call without try/finally
edit_noFinally(w, assign, throws) ==
  LET edited == [w EXCEPT !.settings = applyEditor(w.settings, assign)]
  IN [w |-> IF throws THEN edited
                      ELSE editAll(edited, propertyNames, validate(edited.settings)),
      threw |-> throws]

\* edit(settingsEditor): the editor runs, then, in the finally block, every
\* property is re-validated whether or not the editor threw, and the
\* editor's error, if any, is rethrown
edit(w, assign, throws) ==
  LET edited == [w EXCEPT !.settings = applyEditor(w.settings, assign)]
  IN [w |-> editAll(edited, propertyNames, validate(edited.settings)),
      threw |-> throws]

\* setProperty whose editor starts from the default settings
setProperty_fromDefaults(w, propertyName, value) ==
  LET e == edit([w EXCEPT !.settings = createDefaultSettings],
                [p \in {propertyName} |-> value], FALSE)
  IN [w |-> e.w, threw |-> e.threw, ret |-> Get(e.w.validationMessages, propertyName)]

\* setProperty that reads the validation message before it edits
setProperty_staleMessage(w, propertyName, value) ==
  LET e == edit(w, [p \in {propertyName} |-> value], FALSE)
  IN [w |-> e.w, threw |-> e.threw, ret |-> Get(w.validationMessages, propertyName)]

\* setProperty(propertyName, value): edit with an editor that assigns the one
\* property, then the property's entry of the current validationMessages
setProperty(w, propertyName, value) ==
  LET e == edit(w, [p \in {propertyName} |-> value], FALSE)
  IN [w |-> e.w, threw |-> e.threw, ret |-> Get(e.w.validationMessages, propertyName)]

\* the record saveToFileImpl hands to plugin.saveData: settingsToRawRecord is
\* called with the wrapper
saveToFileImplRecord(w) == settingsToRawRecord(WrapperObject(w))

(***************************************************************************)
(* Inputs                                                                  *)
(***************************************************************************)
\* the values an editor function may assign to each property
PropertyValues ==
  [retries |-> {Num(-1), Num(3), Num(5)},
   name |-> {Str("x"), Str("y")},
   since |-> {DateV(0), DateV(1)},
   _cache |-> {Num(0), Num(1)}]

\* the editor functions: at most MaxAssign assignments
Editors ==
  {a \in UNION {[ps -> UNION {PropertyValues[p] : p \in ps}] :
                  ps \in {q \in SUBSET propertyNames : Cardinality(q) <= MaxAssign}} :
     \A p \in DOMAIN a : a[p] \in PropertyValues[p]}

\* what plugin.loadData() may return
DataValues ==
  { Null,
    Str("not a record"),
    Obj(EmptyFn),
    Obj([retries |-> Num(3), name |-> Str("x"), since |-> SerializedDate(0)]),
    Obj([retries |-> Num(5), name |-> Str("y"), since |-> SerializedDate(1)]),
    Obj([retries |-> Num(-1), name |-> Str("x"), since |-> SerializedDate(0)]),
    Obj([retries |-> Num(5), name |-> Str("x")]),
    Obj([retries |-> Str("5"), name |-> Str("x"), since |-> SerializedDate(0)]),
    Obj([retries |-> Num(3), name |-> Str("x"), since |-> SerializedDate(0),
         doesNotExist |-> Num(1)]),
    Obj([retries |-> Num(3), name |-> Str("x"), since |-> SerializedDate(0),
         _cache |-> Num(1)]) }

\* further values plugin.loadData() may return that are not records
OtherDataValues == {Undef, Num(7), Bool(TRUE)}

\* records plugin.loadData() may return whose values are not of the type of
\* the default
MismatchedDataValues ==
  { Obj([retries |-> Str("5"), name |-> Bool(TRUE), since |-> Str("2020-01-01")]),
    Obj([retries |-> Num(3), name |-> Num(1), since |-> SerializedDate(0)]) }

\* a structured record that lacks a persisted property of the schema
LacksProperty(d) ==
  /\ d.t = "object"
  /\ \E p \in propertyNames : ~IsPrivate(p) /\ p \notin Keys(d)

(***************************************************************************)
(* version.ts: updateVersion                                               *)
(***************************************************************************)
\* the arguments the version command is called with
VersionUpdateTypeArgs == {"major", "minor", "patch", "beta", "1.2.3", "bogus"}

\* /^\d+\.\d+\.\d+(-[\w\d.-]+)?$/ on the arguments above
IsManualVersion(versionUpdateType) == versionUpdateType \in {"1.2.3"}

\* getVersionUpdateType(versionUpdateType)
getVersionUpdateType(versionUpdateType) ==
  IF versionUpdateType \in {"major", "minor", "patch", "beta"}
    THEN versionUpdateType
    ELSE IF IsManualVersion(versionUpdateType) THEN "manual" ELSE "invalid"

\* the task list of updateVersion with the production build after the release
updateVersionTasks_buildLast ==
  << <<"validate", "checkGitInstalled", "checkGitRepoClean", "checkGitHubCliInstalled">>,
     <<"spellcheck">>,
     <<"lint">>,
     <<"getNewVersion", "updateVersionInFiles", "updateChangelog",
       "addUpdatedFilesToGit", "addGitTag", "gitPush", "copyUpdatedManifest",
       "publishGitHubRelease">>,
     <<"buildPlugin">> >>

\* the tasks updateVersion hands to TaskResult.chain, each the sequence of
\* calls its function body makes
updateVersionTasks ==
  << <<"validate", "checkGitInstalled", "checkGitRepoClean", "checkGitHubCliInstalled">>,
     <<"spellcheck">>,
     <<"lint">>,
     <<"buildPlugin">>,
     <<"getNewVersion", "updateVersionInFiles", "updateChangelog",
       "addUpdatedFilesToGit", "addGitTag", "gitPush", "copyUpdatedManifest",
       "publishGitHubRelease">> >>

\* the outcomes a call can have: validate throws exactly for an invalid
\* argument, every other call may succeed or fail
CallOutcomes(call, versionUpdateType) ==
  IF call = "validate"
    THEN {getVersionUpdateType(versionUpdateType) # "invalid"}
    ELSE BOOLEAN

\* TaskResult.chain after a task ended: the next task when the task
\* succeeded and is not the last, 0 otherwise
TaskResultChainNext(tasks, task, succeeded) ==
  IF succeeded /\ task < Len(tasks) THEN task + 1 ELSE 0

\* no updateVersion call yet
ReleaseIdle ==
  [state |-> "idle", versionUpdateType |-> "", task |-> 0, call |-> 0,
   done |-> <<>>, failures |-> <<>>]

\* one call inside the current task function returned (ok) or threw: a
\* throw ends the task function, and with it the task, as failed
updateVersionCall(r, ok) ==
  LET body == updateVersionTasks[r.task]
      name == body[r.call]
      taskEnded == ~ok \/ r.call = Len(body)
      next == TaskResultChainNext(updateVersionTasks, r.task, ok)
  IN [state |-> IF ~taskEnded \/ next # 0 THEN "running"
                ELSE IF ok THEN "succeeded" ELSE "failed",
      versionUpdateType |-> r.versionUpdateType,
      task |-> IF taskEnded THEN next ELSE r.task,
      call |-> IF taskEnded THEN (IF next # 0 THEN 1 ELSE 0) ELSE r.call + 1,
      done |-> IF ok THEN Append(r.done, name) ELSE r.done,
      failures |-> IF ok THEN r.failures ELSE Append(r.failures, name)]

(***************************************************************************)
(* version.ts: getNewVersion                                               *)
(***************************************************************************)
\* A version M.m.p or M.m.p-beta.b: suffix is <<>> or <<"beta", b>>
Version(major, minor, patch, suffix) ==
  [major |-> major, minor |-> minor, patch |-> patch, suffix |-> suffix]

\* the versions package.json may hold
CurrentVersions ==
  {Version(M, m, p, x) :
     M \in 0..MaxVersionPart, m \in 0..MaxVersionPart, p \in 0..MaxVersionPart,
     x \in {<<>>} \cup {<<"beta", b>> : b \in 0..MaxVersionPart}}

\* currentVersion.match(/^(\d+)\.(\d+)\.(\d+)(-beta.(\d+))?/) and the four
\* numbers read from it: match[5] ? Number(match[5]) : 0
parseVersion(currentVersion) ==
  [major |-> currentVersion.major, minor |-> currentVersion.minor,
   patch |-> currentVersion.patch,
   beta |-> IF currentVersion.suffix # <<>> THEN currentVersion.suffix[2] ELSE 0]

\* `${major}.${minor}.${patch}${beta > 0 ? `-beta.${beta}` : ""}`
formatVersion(major, minor, patch, beta) ==
  Version(major, minor, patch, IF beta > 0 THEN <<"beta", beta>> ELSE <<>>)

\* getNewVersion(versionUpdateType) while package.json holds currentVersion:
\* a manual version is returned as the text it was given
getNewVersion(versionUpdateType, currentVersion) ==
  LET versionType == getVersionUpdateType(versionUpdateType)
      v == parseVersion(currentVersion)
  IN CASE versionType = "manual" -> [text |-> versionUpdateType]
       [] versionType = "major" -> formatVersion(v.major + 1, 0, 0, 0)
       [] versionType = "minor" -> formatVersion(v.major, v.minor + 1, 0, 0)
       [] versionType = "patch" -> formatVersion(v.major, v.minor, v.patch + 1, 0)
       [] versionType = "beta" -> formatVersion(v.major, v.minor, v.patch, v.beta + 1)
       [] OTHER -> formatVersion(v.major, v.minor, v.patch, v.beta)

\* no getNewVersion call yet
VersionIdle ==
  [pc |-> "idle", versionUpdateType |-> "", current |-> Version(0, 0, 0, <<>>),
   result |-> Version(0, 0, 0, <<>>)]

(***************************************************************************)
(* ChainedPromise.ts: chain                                                *)
(***************************************************************************)
\* the Obsidian application instances
Apps == {"app1", "app2"}

\* getChainedPromiseWrapper(app) before the first chain call: the wrapper
\* holds Promise.resolve(), written 0; afterwards it holds the promise of the
\* last chain call of that app, written as the index of that call
NoChain == [calls |-> <<>>, value |-> [app \in Apps |-> 0], started |-> <<>>]

\* the promise returned by then(() => { addErrorHandler(...); }) is fulfilled
\* as soon as the callback has run
thenFulfilled_returnDropped(call) == call.state \in {"running", "settled"}

\* the promise returned by then(() => addErrorHandler(...)) follows the
\* promise the callback returns, which settles when fn has completed
thenFulfilled(call) == call.state = "settled"

\* chain(app, fn): the wrapper's promise is replaced by one that runs fn
\* after the promise the wrapper held
chain(c, app) ==
  [calls |-> Append(c.calls, [app |-> app, after |-> c.value[app], state |-> "pending",
                              threw |-> FALSE]),
   value |-> [c.value EXCEPT ![app] = Len(c.calls) + 1],
   started |-> c.started]

\* the then callback of call i runs: the promise it was attached to is
\* fulfilled
CanStart(c, i) ==
  /\ c.calls[i].state = "pending"
  /\ IF c.calls[i].after = 0 THEN TRUE
     ELSE thenFulfilled(c.calls[c.calls[i].after])

(***************************************************************************)
(* Vault.ts: process                                                       *)
(***************************************************************************)
\* the contents the file may have
Contents == {"a", "b", "c"}

\* resolveValue(newContentProvider, oldContent): the new content, or null
\* when the provider asks for a retry
newContentProvider(oldContent) ==
  CASE oldContent = "a" -> Str("b")
    [] oldContent = "b" -> Str("c")
    [] OTHER -> Null

\* no process call yet, the file exists
VaultIdle ==
  [exists |-> TRUE, content |-> "a", pc |-> "idle", shouldFailOnMissingFile |-> TRUE,
   oldContent |-> "", newContent |-> Null, attempt |-> 0,
   applied |-> FALSE, tolerated |-> FALSE, threw |-> FALSE, actor |-> "none"]

\* the callback of app.vault.process that writes without comparing
vaultProcessCallback_noCompare(content, oldContent, newContent) ==
  [content |-> newContent.s, isSuccess |-> TRUE]

\* the callback process hands to app.vault.process, applied to the content
\* the file has at write time
vaultProcessCallback(content, oldContent, newContent) ==
  IF content # oldContent
    THEN [content |-> content, isSuccess |-> FALSE]
    ELSE [content |-> newContent.s, isSuccess |-> TRUE]

\* retryWithTimeout after the attempt returned false: another attempt, or
\* an error once the attempts are used up
retryAttempt(v) ==
  IF v.attempt < MaxAttempts
    THEN [v EXCEPT !.pc = "read", !.attempt = v.attempt + 1, !.actor = "process"]
    ELSE [v EXCEPT !.pc = "failed", !.threw = TRUE, !.actor = "process"]

\* queueFileAction when the file is missing or deleted, with the attempt
\* returning what queueFileAction returned
fileMissing_returnsExists(v) ==
  IF v.shouldFailOnMissingFile
    THEN [v EXCEPT !.pc = "failed", !.threw = TRUE, !.actor = "process"]
    ELSE retryAttempt(v)

\* queueFileAction when the file is missing or deleted: it throws, or it
\* returns false and the attempt returns true
fileMissing(v) ==
  IF v.shouldFailOnMissingFile
    THEN [v EXCEPT !.pc = "failed", !.threw = TRUE, !.actor = "process"]
    ELSE [v EXCEPT !.pc = "done", !.tolerated = TRUE, !.actor = "process"]

\* the first queueFileAction of an attempt: the file is read
processRead(v) ==
  IF ~v.exists THEN fileMissing(v)
  ELSE [v EXCEPT !.pc = "resolve", !.oldContent = v.content, !.actor = "process"]

\* the provider is asked for the new content; null ends the attempt with false
processResolve(v) ==
  LET newContent == newContentProvider(v.oldContent)
  IN IF newContent = Null
       THEN retryAttempt(v)
       ELSE [v EXCEPT !.pc = "write", !.newContent = newContent, !.actor = "process"]

\* the second queueFileAction of an attempt: app.vault.process with the
\* callback, then the attempt returns isSuccess
processWrite(v) ==
  IF ~v.exists THEN fileMissing(v)
  ELSE LET r == vaultProcessCallback(v.content, v.oldContent, v.newContent)
       IN IF r.isSuccess
            THEN [v EXCEPT !.content = r.content, !.pc = "done", !.applied = TRUE,
                           !.actor = "process"]
            ELSE retryAttempt([v EXCEPT !.content = r.content])

(***************************************************************************)
(* Vault.ts: createTempFolder, createTempFile                              *)
(***************************************************************************)
\* The vault holds one chain of folders d1, d1/d2, ... written by their
\* depth 1..MaxDepth, the root folder being depth 0, and in each folder
\* possibly one file, written by the depth of its folder.
Folder(k) == [kind |-> "folder", depth |-> k]

File(k) == [kind |-> "file", depth |-> k]

\* getFolderOrNull(app, path) finds a folder; the root always exists
folderExists(fs, k) == k = 0 \/ k \in fs.folders

\* getFileOrNull(app, path) finds a file
fileExists(fs, k) == k \in fs.files

\* createFolderSafe(app, path)
createFolderSafe(fs, k) ==
  IF folderExists(fs, k) THEN fs ELSE [fs EXCEPT !.folders = @ \cup {k}]

\* createTempFolder(app, path): the vault afterwards and the abstract files
\* the returned function trashes, in order. The result of the first
\* recursive call is dropped, the second call makes folderCleanup.
RECURSIVE createTempFolder(_, _)
createTempFolder(fs, k) ==
  IF folderExists(fs, k)
    THEN [fs |-> fs, cleanup |-> <<>>]
    ELSE LET dropped == createTempFolder(fs, k - 1)
             folderCleanup == createTempFolder(dropped.fs, k - 1)
         IN [fs |-> createFolderSafe(folderCleanup.fs, k),
             cleanup |-> <<Folder(k)>> \o folderCleanup.cleanup]

\* createTempFile(app, path) for the file in the folder of depth k
createTempFile(fs, k) ==
  IF fileExists(fs, k)
    THEN [fs |-> fs, cleanup |-> <<>>]
    ELSE LET folderCleanup == createTempFolder(fs, k)
         IN [fs |-> [folderCleanup.fs EXCEPT !.files = @ \cup {k}],
             cleanup |-> <<File(k)>> \o folderCleanup.cleanup]

\* app.fileManager.trashFile(file): a file, or a folder with all it holds
trashFile(fs, item) ==
  IF item.kind = "file"
    THEN [fs EXCEPT !.files = @ \ {item.depth}]
    ELSE [folders |-> {j \in fs.folders : j < item.depth},
          files |-> {j \in fs.files : j < item.depth}]

\* whether the abstract file is in the vault; nothing but the cleanup
\* touches the vault between the call and its cleanup, so this is !deleted
notDeleted(fs, item) ==
  IF item.kind = "file" THEN fileExists(fs, item.depth)
  ELSE item.depth \in fs.folders

\* the function createTempFolder or createTempFile returned is called
RECURSIVE runCleanup(_, _)
runCleanup(fs, cleanup) ==
  IF cleanup = <<>> THEN fs
  ELSE runCleanup(IF notDeleted(fs, Head(cleanup)) THEN trashFile(fs, Head(cleanup)) ELSE fs,
                  Tail(cleanup))

\* an empty vault, no call yet
TempIdle ==
  [fs |-> [folders |-> {}, files |-> {}], pc |-> "idle",
   before |-> [folders |-> {}, files |-> {}], target |-> Folder(0), cleanup |-> <<>>]

(***************************************************************************)
(* Vault.ts: deleteSafe                                                    *)
(***************************************************************************)
\* The vault holds the folder D with the files D/f1 and D/f2 and the folder
\* D/E with the file D/E/g, and two notes outside D that always exist.
DeleteFiles == {"D/f1", "D/f2", "D/E/g"}

DeleteFolders == {"D", "D/E"}

OutsideNotes == {"n1", "n2"}

\* the links a note may hold to a file of D
LinkPairs ==
  {<<"n1", "D/f1">>, <<"n2", "D/f1">>, <<"D/f1", "D/f2">>, <<"n1", "D/E/g">>,
   <<"n2", "D/E/g">>}

\* app.vault.adapter.list(path): the files, then the folders
listed(path) ==
  CASE path = "D" -> <<"D/f1", "D/f2", "D/E">>
    [] path = "D/E" -> <<"D/E/g">>
    [] OTHER -> <<>>

\* everything below a folder
Descendants(path) ==
  CASE path = "D" -> {"D/f1", "D/f2", "D/E", "D/E/g"}
    [] path = "D/E" -> {"D/E/g"}
    [] OTHER -> {}

\* listSafe(app, folder): the children that exist, files first
listSafe(exists, path) ==
  SelectSeq(listed(path), LAMBDA c : c \in exists)

\* isEmptyFolder(app, folder)
isEmptyFolder(exists, path) == listSafe(exists, path) = <<>>

\* getBacklinksForFileSafe(app, file) after backlinks.clear(deletedNotePath):
\* the existing notes, other than deletedNotePath, that link to the file
backlinks(exists, links, path, deletedNotePath) ==
  {l[1] : l \in {k \in links : /\ k[2] = path
                               /\ k[1] \in exists \cup OutsideNotes
                               /\ k[1] # deletedNotePath}}

\* the end of deleteSafe: app.fileManager.trashFile(file) unless canDelete
\* is false; a throw with the file still there makes the result false
trashIfCan(exists, path, canDelete, failing) ==
  IF canDelete /\ path \notin failing
    THEN [exists |-> exists \ ({path} \cup Descendants(path)), ret |-> TRUE]
    ELSE [exists |-> exists, ret |-> FALSE]

\* deleteSafe that trashes a folder whatever became of its children
deleteSafe_ignoreChildren(exists, links, path, deletedNotePath, shouldDeleteEmptyFolders, failing) ==
  IF path \notin exists THEN [exists |-> exists, ret |-> FALSE]
  ELSE IF path \in DeleteFiles
    THEN trashIfCan(exists, path, backlinks(exists, links, path, deletedNotePath) = {},
                    failing)
    ELSE trashIfCan(exists, path, shouldDeleteEmptyFolders, failing)

\* deleteSafe(app, pathOrFile, deletedNotePath, shouldReportUsedAttachments,
\* shouldDeleteEmptyFolders): the vault afterwards and the result.
\* deleteChildren is the loop over the listed children: canDelete &&= await
\* deleteSafe(child, ...) does not call deleteSafe once canDelete is false,
\* and the recursive call leaves shouldDeleteEmptyFolders at its default.
RECURSIVE deleteSafe(_, _, _, _, _, _)
RECURSIVE deleteChildren(_, _, _, _, _, _)
deleteChildren(exists, links, children, deletedNotePath, failing, canDelete) ==
  IF children = <<>> \/ ~canDelete
    THEN [exists |-> exists, canDelete |-> canDelete]
    ELSE LET r == deleteSafe(exists, links, Head(children), deletedNotePath, TRUE, failing)
         IN deleteChildren(r.exists, links, Tail(children), deletedNotePath, failing, r.ret)

deleteSafe(exists, links, path, deletedNotePath, shouldDeleteEmptyFolders, failing) ==
  IF path \notin exists THEN [exists |-> exists, ret |-> FALSE]
  ELSE IF path \in DeleteFiles
    THEN trashIfCan(exists, path, backlinks(exists, links, path, deletedNotePath) = {},
                    failing)
    ELSE LET r == deleteChildren(exists, links, listSafe(exists, path), deletedNotePath,
                                 failing, shouldDeleteEmptyFolders)
         IN trashIfCan(r.exists, path, r.canDelete /\ isEmptyFolder(r.exists, path),
                       failing)

\* the whole of D exists, no note links into it, no deleteSafe call yet
DeletionIdle ==
  [exists |-> DeleteFiles \cup DeleteFolders, links |-> {}, pc |-> "idle",
   before |-> DeleteFiles \cup DeleteFolders, target |-> "", deletedNotePath |-> "",
   shouldDeleteEmptyFolders |-> TRUE, ret |-> FALSE]

(***************************************************************************)
(* State                                                                   *)
(***************************************************************************)
\* the record of the last completed operation: what it was called with and
\* what it did to the collaborators
NoOp ==
  [op |-> "constructor", threw |-> FALSE, writes |-> 0, written |-> Undef,
   onSave |-> 0, onLoad |-> 0, clean |-> TRUE, assign |-> EmptyFn,
   editorThrew |-> FALSE, ret |-> Undef,
   structured |-> FALSE, lacked |-> FALSE, readBack |-> FALSE,
   kind |-> "none", extraKeys |-> {}, warnUnknown |-> {}, errors |-> 0,
   saveFails |-> FALSE, context |-> Undef, events |-> <<>>, hookArgs |-> <<>>,
   arg |-> Undef, sameObject |-> FALSE,
   loaded |-> Undef, isInitialLoad |-> FALSE, warnType |-> {}, readFails |-> FALSE]

\* what is remembered of the operation before the last one
Summary(o) ==
  [op |-> o.op, writes |-> o.writes, lacked |-> o.lacked, structured |-> o.structured,
   threw |-> o.threw]

\* no saveToFile is suspended
NotSaving ==
  [pc |-> "idle", atCall |-> Undef, record |-> Undef, last |-> Undef, context |-> Undef]

\* the constructor: two fresh default wrappers
Init ==
  /\ currentSettingsWrapper = createDefaultSettingsWrapper
  /\ lastSavedSettingsWrapper = createDefaultSettingsWrapper
  /\ data \in DataValues
  /\ lastOp = NoOp
  /\ prev = Summary(NoOp)
  /\ defaultSettings = createDefaultSettings
  /\ callerSettings = createDefaultSettings
  /\ release = ReleaseIdle
  /\ chainedPromise = NoChain
  /\ vault = VaultIdle
  /\ temp = TempIdle
  /\ deletion = DeletionIdle
  /\ version = VersionIdle
  /\ saving = NotSaving

\* the same with no data.json, for the runs that do not use the manager
InitTools == Init /\ data = Null

(***************************************************************************)
(* Operations                                                              *)
(***************************************************************************)
\* what saveToFile does when it returns at the dirty check
SaveSkipped(last) ==
  [last |-> last, writes |-> 0, written |-> Undef, onSave |-> 0, clean |-> TRUE,
   threw |-> FALSE, events |-> <<>>, hookArgs |-> <<>>]

\* saveToFile without the dirty check
saveToFile_noDirtyCheck(cur, last, context, fails) ==
  [last |-> cloneSettingsWrapper(cur), writes |-> 1,
   written |-> saveToFileImplRecord(cur), onSave |-> 1,
   clean |-> deepEqual(last.settings, cur.settings),
   threw |-> FALSE, events |-> <<"saveData", "onSaveSettings", "lastSaved">>,
   hookArgs |-> <<last, context>>]

\* saveToFile that replaces the last-saved wrapper although the write failed
saveToFile_replaceOnFailure(cur, last, context, fails) ==
  IF deepEqual(last.settings, cur.settings)
    THEN SaveSkipped(last)
    ELSE [last |-> cloneSettingsWrapper(cur), writes |-> 1,
          written |-> saveToFileImplRecord(cur), onSave |-> IF fails THEN 0 ELSE 1,
          clean |-> FALSE, threw |-> fails,
          events |-> IF fails THEN <<"saveData", "lastSaved">>
                              ELSE <<"saveData", "onSaveSettings", "lastSaved">>,
          hookArgs |-> IF fails THEN <<>> ELSE <<last, context>>]

\* saveToFile(context) on wrappers cur and last: the dirty check, then the
\* persistence write (which fails when fails is TRUE, ending the call with
\* that error), the onSaveSettings hook called with the current wrapper, the
\* wrapper last and the context, and the new last-saved wrapper
saveToFile(cur, last, context, fails) ==
  IF deepEqual(last.settings, cur.settings)
    THEN SaveSkipped(last)
    ELSE IF fails
      THEN [last |-> last, writes |-> 1, written |-> saveToFileImplRecord(cur),
            onSave |-> 0, clean |-> FALSE, threw |-> TRUE,
            events |-> <<"saveData">>, hookArgs |-> <<>>]
      ELSE [last |-> cloneSettingsWrapper(cur), writes |-> 1,
            written |-> saveToFileImplRecord(cur), onSave |-> 1, clean |-> FALSE,
            threw |-> FALSE,
            events |-> <<"saveData", "onSaveSettings", "lastSaved">>,
            hookArgs |-> <<last, context>>]

\* editAndSave whose save runs whether or not the edit threw
editAndSave_saveAlways(cur, last, assign, throws, context) ==
  LET e == edit(cur, assign, throws)
  IN [w |-> e.w, threw |-> e.threw, r |-> saveToFile(e.w, last, context, FALSE)]

\* editAndSave(settingsEditor, context): edit is awaited, and saveToFile is
\* called only when edit did not throw
editAndSave(cur, last, assign, throws, context) ==
  LET e == edit(cur, assign, throws)
  IN [w |-> e.w, threw |-> e.threw,
      r |-> IF e.threw THEN SaveSkipped(last)
                       ELSE saveToFile(e.w, last, context, FALSE)]

\* what loadFromFile leaves when it returns before it parses anything
LoadReturned(cur, last, errors) ==
  [cur |-> cur, last |-> last, writes |-> 0, written |-> Undef, onLoad |-> 0,
   structured |-> FALSE, threw |-> FALSE, errors |-> errors, warnUnknown |-> {},
   warnType |-> {}, events |-> <<>>, hookArgs |-> <<>>]

\* the tail of loadFromFile for a record: parse, validate, store, clone,
\* write back when the record differs (plugin.saveData accepting
\* the record), notify
LoadRecord(d, isInitialLoad) ==
  LET parsedSettings == rawRecordToSettings(d)
      validationResult == validate(parsedSettings)
      cur == setAll(createDefaultSettingsWrapper, propertyNames,
                    parsedSettings, validationResult)
      newRecord == settingsToRawRecord(cur.settings)
      dirty == ~deepEqual(newRecord, d)
  IN [cur |-> cur, last |-> cloneSettingsWrapper(cur),
      writes |-> IF dirty THEN 1 ELSE 0,
      written |-> IF dirty THEN saveToFileImplRecord(cur) ELSE Undef,
      onLoad |-> 1, structured |-> TRUE,
      threw |-> FALSE, errors |-> 0, warnUnknown |-> unknownProperties(d),
      warnType |-> typeMismatches(d),
      events |-> (IF dirty THEN <<"saveData">> ELSE <<>>) \o <<"onLoadSettings">>,
      hookArgs |-> <<cur, isInitialLoad>>]

\* loadFromFile that tests for an absent record before it resets the wrappers
loadFromFile_lateReset(d, isInitialLoad) ==
  IF d.t \in {"undefined", "null"}
    THEN LoadReturned(currentSettingsWrapper, lastSavedSettingsWrapper, 0)
    ELSE LoadReturned(createDefaultSettingsWrapper, createDefaultSettingsWrapper, 1)

\* loadFromFile without the typeof test: any present value is parsed
loadFromFile_noTypeTest(d, isInitialLoad) ==
  IF d.t \in {"undefined", "null"}
    THEN LoadReturned(createDefaultSettingsWrapper, createDefaultSettingsWrapper, 0)
    ELSE LoadRecord(d, isInitialLoad)

\* loadFromFile that notifies before the write-back
loadFromFile_notifyFirst(d, isInitialLoad) ==
  IF d.t \in {"undefined", "null"}
    THEN LoadReturned(createDefaultSettingsWrapper, createDefaultSettingsWrapper, 0)
    ELSE IF TypeOf(d) # "object"
    THEN LoadReturned(createDefaultSettingsWrapper, createDefaultSettingsWrapper, 1)
    ELSE LET r == LoadRecord(d, isInitialLoad)
         IN [r EXCEPT !.events = <<"onLoadSettings">> \o
                                   (IF r.writes > 0 THEN <<"saveData">> ELSE <<>>)]

\* loadFromFile(isInitialLoad) when plugin.loadData() returned d: both
\* wrappers are reset, an absent record ends the call, a value that is not
\* an object is reported with console.error and ends the call, a record is
\* parsed, validated, stored, cloned and written back when it differs, and
\* plugin.onLoadSettings is called last
loadFromFile(d, isInitialLoad) ==
  IF d.t \in {"undefined", "null"}
    THEN LoadReturned(createDefaultSettingsWrapper, createDefaultSettingsWrapper, 0)
    ELSE IF TypeOf(d) # "object"
    THEN LoadReturned(createDefaultSettingsWrapper, createDefaultSettingsWrapper, 1)
    ELSE LoadRecord(d, isInitialLoad)

\* loadFromFile that resets both wrappers before it reads
loadFromFileRead_resetFirst(cur, last, readFails, d, isInitialLoad) ==
  IF readFails
    THEN [LoadReturned(createDefaultSettingsWrapper, createDefaultSettingsWrapper, 0)
            EXCEPT !.threw = TRUE]
    ELSE loadFromFile(d, isInitialLoad)

\* loadFromFile(isInitialLoad) on wrappers cur and last when plugin.loadData()
\* rejects (readFails) or returns d: the rejection ends the call at its first
\* await, before anything is assigned
loadFromFileRead(cur, last, readFails, d, isInitialLoad) ==
  IF readFails
    THEN [LoadReturned(cur, last, 0) EXCEPT !.threw = TRUE]
    ELSE loadFromFile(d, isInitialLoad)

\* the kind of value plugin.loadData() returned
KindOf(d) ==
  CASE d.t \in {"undefined", "null"} -> "absent"
    [] d.t = "object" -> "record"
    [] OTHER -> "malformed"

\* the call contexts handed to saveToFile
Contexts == {Undef, Str("settings tab")}

\* plugin.saveData(record) followed by what plugin.loadData() then reads
Persisted(record) == JsonClone(record)

\* loadFromFile(isInitialLoad) while data.json holds what it held or one of
\* values
LoadFromFileFrom(values, flags) ==
  \E d \in {data} \cup values, isInitialLoad \in flags :
    \E r \in {loadFromFile(d, isInitialLoad)} :
       /\ currentSettingsWrapper' = r.cur
       /\ lastSavedSettingsWrapper' = r.last
       /\ data' = IF r.writes > 0 /\ ~r.threw THEN Persisted(r.written) ELSE d
       /\ lastOp' = [NoOp EXCEPT !.op = "loadFromFile", !.writes = r.writes,
                                 !.written = r.written, !.onLoad = r.onLoad,
                                 !.structured = r.structured,
                                 !.lacked = LacksProperty(d),
                                 !.readBack = (d = data),
                                 !.threw = r.threw, !.errors = r.errors,
                                 !.warnUnknown = r.warnUnknown,
                                 !.kind = KindOf(d),
                                 !.loaded = d, !.isInitialLoad = isInitialLoad,
                                 !.warnType = r.warnType,
                                 !.events = r.events, !.hookArgs = r.hookArgs,
                                 !.extraKeys = Keys(d) \ propertyNames]
       /\ prev' = Summary(lastOp)
       /\ UNCHANGED toolVars
       /\ UNCHANGED <<defaultSettings, callerSettings>>

LoadFromFile == LoadFromFileFrom(DataValues, {TRUE})

LoadFromFileAny ==
  LoadFromFileFrom(DataValues \cup OtherDataValues \cup MismatchedDataValues, BOOLEAN)

\* saveToFile(context) called with one of contexts while the persistence
\* write behaves as one of failures says
SaveToFileWith(contexts, failures) ==
  \E context \in contexts, fails \in failures :
    \E r \in {saveToFile(currentSettingsWrapper, lastSavedSettingsWrapper, context, fails)} :
       /\ lastSavedSettingsWrapper' = r.last
       /\ data' = IF r.writes > 0 /\ ~r.threw THEN Persisted(r.written) ELSE data
       /\ lastOp' = [NoOp EXCEPT !.op = "saveToFile", !.writes = r.writes,
                                 !.written = r.written, !.onSave = r.onSave,
                                 !.clean = r.clean, !.threw = r.threw,
                                 !.saveFails = fails, !.context = context,
                                 !.events = r.events, !.hookArgs = r.hookArgs]
       /\ prev' = Summary(lastOp)
       /\ UNCHANGED toolVars
       /\ UNCHANGED <<currentSettingsWrapper, defaultSettings, callerSettings>>

\* saveToFile() without a context, the write succeeding
SaveToFile == SaveToFileWith({Undef}, {FALSE})

\* saveToFile(context), the write succeeding or failing
SaveToFileIO == SaveToFileWith(Contexts, BOOLEAN)

SetPropertyOf(names) ==
  \E propertyName \in names :
    \E value \in PropertyValues[propertyName] :
      \E e \in {setProperty(currentSettingsWrapper, propertyName, value)} :
         /\ currentSettingsWrapper' = e.w
         /\ lastOp' = [NoOp EXCEPT !.op = "setProperty", !.threw = e.threw,
                                   !.assign = [p \in {propertyName} |-> value],
                                   !.ret = e.ret]
         /\ prev' = Summary(lastOp)
         /\ UNCHANGED toolVars
         /\ UNCHANGED <<lastSavedSettingsWrapper, data, defaultSettings, callerSettings>>

SetProperty == SetPropertyOf(propertyNames)

\* setProperty('retries', value)
SetRetries == SetPropertyOf({"retries"})

EditAndSaveWith(editors) ==
  \E assign \in editors, throws \in BOOLEAN :
    \E x \in {editAndSave(currentSettingsWrapper, lastSavedSettingsWrapper,
                          assign, throws, Undef)} :
       /\ currentSettingsWrapper' = x.w
       /\ lastSavedSettingsWrapper' = x.r.last
       /\ data' = IF x.r.writes > 0 THEN Persisted(x.r.written) ELSE data
       /\ lastOp' = [NoOp EXCEPT !.op = "editAndSave", !.threw = x.threw,
                                 !.editorThrew = throws,
                                 !.assign = assign, !.writes = x.r.writes,
                                 !.written = x.r.written, !.onSave = x.r.onSave,
                                 !.clean = x.r.clean,
                                 !.events = x.r.events, !.hookArgs = x.r.hookArgs]
       /\ prev' = Summary(lastOp)
       /\ UNCHANGED toolVars
       /\ UNCHANGED <<defaultSettings, callerSettings>>

\* editAndSave(settingsEditor) with any of the editor functions
EditAndSave == EditAndSaveWith(Editors)

\* editAndSave(settingsEditor) with an editor that assigns nothing or name
EditAndSaveName == EditAndSaveWith({a \in Editors : DOMAIN a \subseteq {"name"}})

\* the settings objects a caller builds
CallerSettings ==
  {Obj([retries |-> r, name |-> Str("y"), since |-> d, _cache |-> Num(1)]) :
     r \in {Num(-1), Num(5)}, d \in {DateV(1), Null}}

GetSafeCopy ==
  \E s \in CallerSettings \cup {callerSettings} :
    \E r \in {getSafeCopy(s)} :
      /\ callerSettings' = r.arg
      /\ lastOp' = [NoOp EXCEPT !.op = "getSafeCopy", !.arg = s, !.ret = r.ret,
                                !.sameObject = r.sameObject]
      /\ prev' = Summary(lastOp)
      /\ UNCHANGED toolVars
      /\ UNCHANGED <<currentSettingsWrapper, lastSavedSettingsWrapper, data,
                     defaultSettings>>

EnsureSafe ==
  \E s \in CallerSettings \cup {callerSettings} :
    /\ callerSettings' = ensureSafe(s)
    /\ lastOp' = [NoOp EXCEPT !.op = "ensureSafe", !.arg = s]
    /\ prev' = Summary(lastOp)
    /\ UNCHANGED toolVars
    /\ UNCHANGED <<currentSettingsWrapper, lastSavedSettingsWrapper, data,
                   defaultSettings>>

\* the caller edits its settings object in place: settings.since.setTime(d)
\* changes the Date object that settings.since is
MutateInPlace ==
  \E d \in {0, 1} :
    /\ Deref(Get(callerSettings, "since")).t = "date"
    /\ IF Get(callerSettings, "since").t = "ref"
         THEN /\ defaultSettings' = Put(defaultSettings, "since", DateV(d))
              /\ UNCHANGED callerSettings
         ELSE /\ callerSettings' = Put(callerSettings, "since", DateV(d))
              /\ UNCHANGED defaultSettings
    /\ lastOp' = [NoOp EXCEPT !.op = "mutateInPlace"]
    /\ prev' = Summary(lastOp)
    /\ UNCHANGED toolVars
    /\ UNCHANGED <<currentSettingsWrapper, lastSavedSettingsWrapper, data>>

\* validate(settings) called by the plugin on a settings object of its own
Validate ==
  \E s \in CallerSettings \cup {callerSettings} :
    /\ callerSettings' = s
    /\ lastOp' = [NoOp EXCEPT !.op = "validate", !.arg = s, !.ret = validate(s)]
    /\ prev' = Summary(lastOp)
    /\ UNCHANGED toolVars
    /\ UNCHANGED <<currentSettingsWrapper, lastSavedSettingsWrapper, data,
                   defaultSettings>>

\* updateVersion(versionUpdateType) is called
UpdateVersion ==
  \E versionUpdateType \in VersionUpdateTypeArgs :
    /\ release.state = "idle"
    /\ release' = [ReleaseIdle EXCEPT !.state = "running",
                                      !.versionUpdateType = versionUpdateType,
                                      !.task = 1, !.call = 1]
    /\ UNCHANGED <<managerVars, chainedPromise, vault, temp, deletion, version, saving>>

\* the next call of the running task function returns or throws
UpdateVersionCall ==
  /\ release.state = "running"
  /\ \E ok \in CallOutcomes(updateVersionTasks[release.task][release.call],
                            release.versionUpdateType) :
       release' = updateVersionCall(release, ok)
  /\ UNCHANGED <<managerVars, chainedPromise, vault, temp, deletion, version, saving>>

\* chain(app, fn) is called
Chain ==
  \E app \in Apps :
    /\ Len(chainedPromise.calls) < MaxChain
    /\ chainedPromise' = chain(chainedPromise, app)
    /\ UNCHANGED <<managerVars, release, vault, temp, deletion, version, saving>>

\* the then callback of a chain call runs and invokes fn
StartChained ==
  \E i \in DOMAIN chainedPromise.calls :
    /\ CanStart(chainedPromise, i)
    /\ chainedPromise' = [chainedPromise EXCEPT !.calls[i].state = "running",
                                                !.started = Append(@, i)]
    /\ UNCHANGED <<managerVars, release, vault, temp, deletion, version, saving>>

\* a chained fn completes or throws
FinishChained ==
  \E i \in DOMAIN chainedPromise.calls, threw \in BOOLEAN :
    /\ chainedPromise.calls[i].state = "running"
    /\ chainedPromise' = [chainedPromise EXCEPT !.calls[i].state = "settled",
                                                !.calls[i].threw = threw]
    /\ UNCHANGED <<managerVars, release, vault, temp, deletion, version, saving>>

\* process(app, pathOrFile, newContentProvider, options) is called
Process ==
  \E shouldFailOnMissingFile \in BOOLEAN :
    /\ vault.pc \in {"idle", "done", "failed"}
    /\ vault' = [VaultIdle EXCEPT !.exists = vault.exists, !.content = vault.content,
                                  !.pc = "read", !.attempt = 1,
                                  !.shouldFailOnMissingFile = shouldFailOnMissingFile,
                                  !.actor = "process"]
    /\ UNCHANGED <<managerVars, release, chainedPromise, temp, deletion, version, saving>>

ProcessRead ==
  /\ vault.pc = "read"
  /\ vault' = processRead(vault)
  /\ UNCHANGED <<managerVars, release, chainedPromise, temp, deletion, version, saving>>

ProcessResolve ==
  /\ vault.pc = "resolve"
  /\ vault' = processResolve(vault)
  /\ UNCHANGED <<managerVars, release, chainedPromise, temp, deletion, version, saving>>

ProcessWrite ==
  /\ vault.pc = "write"
  /\ vault' = processWrite(vault)
  /\ UNCHANGED <<managerVars, release, chainedPromise, temp, deletion, version, saving>>

\* another writer modifies, deletes or creates the file
OtherWriter ==
  \E exists \in BOOLEAN, content \in Contents :
    /\ <<exists, content>> # <<vault.exists, vault.content>>
    /\ exists \/ content = vault.content
    /\ vault' = [vault EXCEPT !.exists = exists, !.content = content, !.actor = "other"]
    /\ UNCHANGED <<managerVars, release, chainedPromise, temp, deletion, version, saving>>

\* createTempFolder(app, path) is called and returns
CreateTempFolder ==
  \E k \in 1..MaxDepth :
    /\ temp.pc # "created"
    /\ \E r \in {createTempFolder(temp.fs, k)} :
         temp' = [fs |-> r.fs, pc |-> "created", before |-> temp.fs,
                  target |-> Folder(k), cleanup |-> r.cleanup]
    /\ UNCHANGED <<managerVars, release, chainedPromise, vault, deletion, version, saving>>

\* createTempFile(app, path) is called and returns
CreateTempFile ==
  \E k \in 0..MaxDepth :
    /\ temp.pc # "created"
    /\ \E r \in {createTempFile(temp.fs, k)} :
         temp' = [fs |-> r.fs, pc |-> "created", before |-> temp.fs,
                  target |-> File(k), cleanup |-> r.cleanup]
    /\ UNCHANGED <<managerVars, release, chainedPromise, vault, deletion, version, saving>>

\* the returned function is called
TempCleanup ==
  /\ temp.pc = "created"
  /\ temp' = [temp EXCEPT !.fs = runCleanup(temp.fs, temp.cleanup), !.pc = "cleaned"]
  /\ UNCHANGED <<managerVars, release, chainedPromise, vault, deletion, version, saving>>

\* between the calls the user creates or trashes a folder or a file
OtherFs ==
  /\ temp.pc # "created"
  /\ \E k \in 0..MaxDepth, kind \in {"folder", "file"}, create \in BOOLEAN :
       /\ kind = "folder" => k > 0
       /\ IF create
            THEN /\ folderExists(temp.fs, IF kind = "folder" THEN k - 1 ELSE k)
                 /\ ~notDeleted(temp.fs, [kind |-> kind, depth |-> k])
                 /\ temp' = [temp EXCEPT !.fs = IF kind = "folder"
                                                  THEN createFolderSafe(temp.fs, k)
                                                  ELSE [temp.fs EXCEPT !.files = @ \cup {k}],
                                         !.pc = "idle"]
            ELSE /\ notDeleted(temp.fs, [kind |-> kind, depth |-> k])
                 /\ temp' = [temp EXCEPT !.fs = trashFile(temp.fs, [kind |-> kind, depth |-> k]),
                                         !.pc = "idle"]
  /\ UNCHANGED <<managerVars, release, chainedPromise, vault, deletion, version, saving>>

\* saveToFile(context) is called: the dirty check returns, or the record is
\* built from the current wrapper and handed to plugin.saveData, whose
\* promise the call awaits
SaveBegin ==
  \E context \in Contexts :
    /\ saving.pc \in {"idle", "completed"}
    /\ IF deepEqual(lastSavedSettingsWrapper.settings, currentSettingsWrapper.settings)
         THEN /\ saving' = NotSaving
              /\ lastOp' = [NoOp EXCEPT !.op = "saveToFile", !.context = context]
              /\ prev' = Summary(lastOp)
              /\ data' = data
         ELSE \E record \in {saveToFileImplRecord(currentSettingsWrapper)} :
                /\ saving' = [pc |-> "write", atCall |-> currentSettingsWrapper.settings,
                              record |-> record, last |-> lastSavedSettingsWrapper,
                              context |-> context]
                /\ data' = Persisted(record)
                /\ UNCHANGED <<lastOp, prev>>
    /\ UNCHANGED <<currentSettingsWrapper, lastSavedSettingsWrapper, defaultSettings,
                   callerSettings, release, chainedPromise, vault, temp, deletion, version>>

\* the persistence write has completed: plugin.onSaveSettings is called with
\* the current wrapper, the last-saved wrapper and the context, and awaited
SaveWritten ==
  /\ saving.pc = "write"
  /\ saving' = [saving EXCEPT !.pc = "hook", !.last = lastSavedSettingsWrapper]
  /\ UNCHANGED <<managerVars, release, chainedPromise, vault, temp, deletion, version>>

\* the hook has completed: the last-saved wrapper becomes a clone of the
\* wrapper that is current now
SaveHookDone ==
  /\ saving.pc = "hook"
  /\ lastSavedSettingsWrapper' = cloneSettingsWrapper(currentSettingsWrapper)
  /\ saving' = [saving EXCEPT !.pc = "completed"]
  /\ lastOp' = [NoOp EXCEPT !.op = "saveToFile", !.writes = 1, !.written = saving.record,
                            !.onSave = 1, !.clean = FALSE, !.context = saving.context,
                            !.events = <<"saveData", "onSaveSettings", "lastSaved">>,
                            !.hookArgs = <<saving.last, saving.context>>]
  /\ prev' = Summary(lastOp)
  /\ UNCHANGED <<currentSettingsWrapper, data, defaultSettings, callerSettings,
                 release, chainedPromise, vault, temp, deletion, version>>

\* loadFromFile(isInitialLoad) while plugin.loadData() rejects or returns
\* what data.json holds or one of DataValues
LoadFromFileRead ==
  \E d \in {data} \cup DataValues, isInitialLoad \in BOOLEAN, readFails \in BOOLEAN :
    \E r \in {loadFromFileRead(currentSettingsWrapper, lastSavedSettingsWrapper,
                               readFails, d, isInitialLoad)} :
       /\ currentSettingsWrapper' = r.cur
       /\ lastSavedSettingsWrapper' = r.last
       /\ data' = IF readFails THEN data
                  ELSE IF r.writes > 0 THEN Persisted(r.written) ELSE d
       /\ lastOp' = [NoOp EXCEPT !.op = "loadFromFile", !.writes = r.writes,
                                 !.written = r.written, !.onLoad = r.onLoad,
                                 !.structured = r.structured,
                                 !.threw = r.threw, !.errors = r.errors,
                                 !.warnUnknown = r.warnUnknown,
                                 !.kind = IF readFails THEN "none" ELSE KindOf(d),
                                 !.loaded = IF readFails THEN Undef ELSE d,
                                 !.isInitialLoad = isInitialLoad,
                                 !.warnType = r.warnType,
                                 !.events = r.events, !.hookArgs = r.hookArgs,
                                 !.readFails = readFails]
       /\ prev' = Summary(lastOp)
       /\ UNCHANGED toolVars
       /\ UNCHANGED <<defaultSettings, callerSettings>>

\* deleteSafe(app, path, deletedNotePath, _, shouldDeleteEmptyFolders) is
\* called and returns; trashFile throws for the paths in failing
DeleteSafe ==
  \E path \in DeleteFiles \cup DeleteFolders, deletedNotePath \in {"", "n1"},
     shouldDeleteEmptyFolders \in BOOLEAN,
     failing \in {{}} \cup {{f} : f \in DeleteFiles \cup DeleteFolders} :
    /\ \E r \in {deleteSafe(deletion.exists, deletion.links, path, deletedNotePath,
                            shouldDeleteEmptyFolders, failing)} :
         deletion' = [deletion EXCEPT !.exists = r.exists, !.pc = "done",
                                      !.before = deletion.exists, !.target = path,
                                      !.deletedNotePath = deletedNotePath,
                                      !.shouldDeleteEmptyFolders = shouldDeleteEmptyFolders,
                                      !.ret = r.ret]
    /\ UNCHANGED <<managerVars, release, chainedPromise, vault, temp, version, saving>>

\* the user restores D or edits one link of a note
OtherVault ==
  /\ \/ deletion' = [deletion EXCEPT !.exists = DeleteFiles \cup DeleteFolders,
                                     !.pc = "idle"]
     \/ \E l \in LinkPairs :
          deletion' = [deletion EXCEPT !.links = (@ \cup {l}) \ (@ \cap {l}),
                                       !.pc = "idle"]
  /\ UNCHANGED <<managerVars, release, chainedPromise, vault, temp, version, saving>>

\* getNewVersion(versionUpdateType) is called, after validate has accepted
\* the argument, and returns
GetNewVersion ==
  \E versionUpdateType \in {a \in VersionUpdateTypeArgs : getVersionUpdateType(a) # "invalid"},
     currentVersion \in CurrentVersions :
    /\ version' = [pc |-> "done", versionUpdateType |-> versionUpdateType,
                   current |-> currentVersion,
                   result |-> getNewVersion(versionUpdateType, currentVersion)]
    /\ UNCHANGED <<managerVars, release, chainedPromise, vault, temp, deletion, saving>>

Next == LoadFromFile \/ SaveToFile \/ SetProperty \/ EditAndSave

Spec == Init /\ [][Next]_vars

\* loading any kind of value, between edits
NextLoad == LoadFromFileAny \/ SetProperty

SpecLoad == Init /\ [][NextLoad]_vars

\* saving with a context and a persistence write that may fail
NextIO == SetProperty \/ SaveToFileIO \/ LoadFromFile

SpecIO == Init /\ [][NextIO]_vars

\* making caller-supplied settings safe, between edits
NextSafe == GetSafeCopy \/ EnsureSafe \/ Validate \/ MutateInPlace \/ SetRetries

SpecSafe == Init /\ [][NextSafe]_vars

\* a run of the release script
NextRelease == UpdateVersion \/ UpdateVersionCall

SpecRelease == InitTools /\ [][NextRelease]_vars

\* chain calls and the chained functions, interleaved
NextChain == Chain \/ StartChained \/ FinishChained

SpecChain == InitTools /\ [][NextChain]_vars

\* process calls interleaved with another writer
NextVault == Process \/ ProcessRead \/ ProcessResolve \/ ProcessWrite \/ OtherWriter

SpecVault == InitTools /\ [][NextVault]_vars

\* temporary folders and files, between changes the user makes
SpecTemp ==
  InitTools /\ [][CreateTempFolder \/ CreateTempFile \/ TempCleanup \/ OtherFs]_vars

\* a saveToFile that is suspended at its awaits while edits run
SpecInterleaved ==
  InitTools /\ [][SaveBegin \/ SaveWritten \/ SaveHookDone \/ SetRetries \/ EditAndSaveName]_vars

\* loading with a persistence read that may fail, between edits
SpecRead ==
  Init /\ [][LoadFromFileRead \/ SetProperty]_vars

\* deleteSafe calls, between changes the user makes
SpecDelete ==
  InitTools /\ [][DeleteSafe \/ OtherVault]_vars

\* getNewVersion for every argument and current version
SpecVersion ==
  InitTools /\ [][GetNewVersion]_vars

(***************************************************************************)
(* Properties                                                              *)
(***************************************************************************)
\* the validation message validate() yields for p on settings, '' if none
MessageOf(settings, p) ==
  IF p \in validators THEN Str(Validator(p, Get(settings, p), settings)) ELSE Str("")

EditOps == {"setProperty", "editAndSave"}

\* C1: safe-value invariant. After construction and after every completed
\* operation, for every property p of the property-name list,
\* current.safeSettings[p] is defaultSettings[p] when
\* current.validationMessages[p] is non-empty and current.settings[p] otherwise.
C1_SafeValueInvariant ==
  \A p \in propertyNames :
    Get(currentSettingsWrapper.safeSettings, p) =
      IF Truthy(Get(currentSettingsWrapper.validationMessages, p))
        THEN defaultSettings.o[p]
        ELSE Get(currentSettingsWrapper.settings, p)

\* a load has read an invalid value: the safe view differs from the settings
C1_Witness ==
  /\ lastOp.op = "loadFromFile"
  /\ Truthy(Get(currentSettingsWrapper.validationMessages, "retries"))
  /\ Get(currentSettingsWrapper.safeSettings, "retries") = Num(3)
  /\ Get(currentSettingsWrapper.settings, "retries") = Num(-1)

\* C2: key-set invariant. In every reachable state the settings, safeSettings
\* and validationMessages views of the current and of the last-saved wrapper
\* all have the manager's property-name list as their key set.
C2_KeySetInvariant ==
  \A w \in {currentSettingsWrapper, lastSavedSettingsWrapper} :
    /\ Keys(w.settings) = propertyNames
    /\ Keys(w.safeSettings) = propertyNames
    /\ Keys(w.validationMessages) = propertyNames

\* C3: dirty-check idempotence. Two consecutive saveToFile calls with no edit
\* and no load between them call plugin.saveData at most once in total.
C3_DirtyCheckIdempotence ==
  (lastOp.op = "saveToFile" /\ prev.op = "saveToFile")
    => prev.writes + lastOp.writes <= 1

\* C4: self-healing write-back. A loadFromFile of a structured record lacking
\* a schema property writes exactly once, and a following loadFromFile that
\* reads back what was written does not write.
C4_SelfHealingWriteBack ==
  /\ (lastOp.op = "loadFromFile" /\ lastOp.lacked) => lastOp.writes = 1
  /\ (/\ lastOp.op = "loadFromFile" /\ lastOp.readBack
      /\ prev.op = "loadFromFile" /\ prev.lacked /\ prev.writes = 1)
       => lastOp.writes = 0

\* C5: the record handed to plugin.saveData holds exactly the property names,
\* each mapped to the forward-transformed value of current.settings.
C5_WrittenRecord ==
  lastOp.writes > 0 =>
    /\ Keys(lastOp.written) = propertyNames
    /\ \A p \in propertyNames :
         Get(lastOp.written, p) = TransformValue(Get(currentSettingsWrapper.settings, p))

\* C6: edit exception safety. When the editor function throws after mutating
\* properties, the call rethrows and every validationMessages and safeSettings
\* entry of the current wrapper is the one computed from the mutated settings.
C6_EditExceptionSafety ==
  (lastOp.op \in EditOps /\ lastOp.editorThrew) =>
    /\ lastOp.threw
    /\ \A p \in propertyNames :
         /\ Get(currentSettingsWrapper.validationMessages, p) =
              MessageOf(currentSettingsWrapper.settings, p)
         /\ Get(currentSettingsWrapper.safeSettings, p) =
              IF MessageOf(currentSettingsWrapper.settings, p) # Str("")
                THEN defaultSettings.o[p]
                ELSE Get(currentSettingsWrapper.settings, p)

\* an editor set retries to a rejected value and then threw, on a wrapper
\* whose retries entry was valid before
C6_Witness ==
  /\ lastOp.op = "editAndSave" /\ lastOp.editorThrew /\ lastOp.threw
  /\ DOMAIN lastOp.assign = {"retries"}
  /\ lastOp.assign["retries"] = Num(-1)
  /\ Get(currentSettingsWrapper.validationMessages, "retries") # Str("")
  /\ prev.op = "constructor"

\* C7: invalid values are masked, not lost. After an edit that sets a property
\* p to a value v its validator rejects, settings[p] is v, validationMessages[p]
\* is non-empty and safeSettings[p] is defaultSettings[p].
C7_InvalidMasked ==
  lastOp.op \in EditOps =>
    \A p \in DOMAIN lastOp.assign :
      Validator(p, lastOp.assign[p], currentSettingsWrapper.settings) # "" =>
        /\ Get(currentSettingsWrapper.settings, p) = lastOp.assign[p]
        /\ Truthy(Get(currentSettingsWrapper.validationMessages, p))
        /\ Get(currentSettingsWrapper.safeSettings, p) = defaultSettings.o[p]

\* the scenario of the specification: setProperty('retries', -1)
C7_Witness ==
  /\ lastOp.op = "setProperty"
  /\ DOMAIN lastOp.assign = {"retries"}
  /\ lastOp.assign["retries"] = Num(-1)
  /\ Get(currentSettingsWrapper.settings, "retries") = Num(-1)
  /\ Get(currentSettingsWrapper.safeSettings, "retries") = Num(3)
  /\ Truthy(lastOp.ret)

\* C8: saveToFile is a no-op when clean. A saveToFile called while the current
\* settings deep-equal the last-saved settings calls neither plugin.saveData
\* nor onSaveSettings and leaves both wrappers (and the stored data) unchanged.
C8_SaveNoOpWhenClean ==
  [][(/\ lastOp'.op = "saveToFile"
      /\ deepEqual(lastSavedSettingsWrapper.settings, currentSettingsWrapper.settings))
       => /\ lastOp'.writes = 0
          /\ lastOp'.onSave = 0
          /\ currentSettingsWrapper' = currentSettingsWrapper
          /\ lastSavedSettingsWrapper' = lastSavedSettingsWrapper
          /\ data' = data]_vars

\* a saveToFile found the settings clean after an edit had restored them
C8_Witness ==
  /\ lastOp.op = "saveToFile" /\ lastOp.clean /\ lastOp.writes = 0
  /\ prev.op \in EditOps

\* C9: a load of a structured record leaves the manager clean: the last-saved
\* settings deep-equal the current settings, so a saveToFile that follows
\* directly neither writes nor notifies.
C9_LoadLeavesClean ==
  /\ (lastOp.op = "loadFromFile" /\ lastOp.structured)
       => deepEqual(lastSavedSettingsWrapper.settings, currentSettingsWrapper.settings)
  /\ (lastOp.op = "saveToFile" /\ prev.op = "loadFromFile" /\ prev.structured)
       => (lastOp.writes = 0 /\ lastOp.onSave = 0)

\* C10: round-trip fidelity. Transforming the settings forward to a raw record
\* and backward to settings, as the manager's clone does and as a save followed
\* by a load does, yields settings deep-equal to the original on every
\* property that is not private.
C10_RoundTrip ==
  LET s == currentSettingsWrapper.settings
      clone == Await(cloneSettings(s))
      reloaded == rawRecordToSettings(Persisted(settingsToRawRecord(s)))
  IN \A p \in propertyNames :
       ~IsPrivate(p) =>
         /\ deepEqual(Get(clone, p), Get(s, p))
         /\ deepEqual(Get(reloaded, p), Get(s, p))

C12_AbsentRecord ==
  (lastOp.op = "loadFromFile" /\ lastOp.kind = "absent") =>
    /\ ~lastOp.threw
    /\ lastOp.writes = 0
    /\ currentSettingsWrapper = createDefaultSettingsWrapper
    /\ lastSavedSettingsWrapper = createDefaultSettingsWrapper

\* undefined was loaded right after an edit
C12_Witness ==
  /\ lastOp.op = "loadFromFile" /\ lastOp.kind = "absent"
  /\ data = Undef
  /\ prev.op = "setProperty"

C14_DirtySaveOrder ==
  [][(/\ lastOp'.op = "saveToFile"
      /\ ~lastOp'.saveFails
      /\ ~deepEqual(lastSavedSettingsWrapper.settings, currentSettingsWrapper.settings))
       => /\ lastOp'.events = <<"saveData", "onSaveSettings", "lastSaved">>
          /\ lastOp'.writes = 1
          /\ lastOp'.onSave = 1
          /\ lastOp'.hookArgs = <<lastSavedSettingsWrapper, lastOp'.context>>
          /\ deepEqual(lastSavedSettingsWrapper'.settings,
                       currentSettingsWrapper'.settings)]_vars

\* C15: failed save keeps the manager dirty. When the persistence write of a
\* saveToFile fails, the call ends with that error, onSaveSettings is not
\* called, the last-saved wrapper and the stored data are unchanged, and a
\* saveToFile that follows directly attempts the write again.
C15_FailedSaveKeepsDirty ==
  [][/\ (/\ lastOp'.op = "saveToFile"
         /\ lastOp'.saveFails
         /\ ~deepEqual(lastSavedSettingsWrapper.settings,
                       currentSettingsWrapper.settings))
          => /\ lastOp'.threw
             /\ lastOp'.onSave = 0
             /\ lastSavedSettingsWrapper' = lastSavedSettingsWrapper
             /\ currentSettingsWrapper' = currentSettingsWrapper
             /\ data' = data
     /\ (lastOp.op = "saveToFile" /\ lastOp.threw /\ lastOp'.op = "saveToFile")
          => lastOp'.writes = 1]_vars

\* a save was attempted again right after a save whose write had failed
C15_Witness ==
  /\ lastOp.op = "saveToFile" /\ lastOp.writes = 1
  /\ prev.op = "saveToFile" /\ prev.threw /\ prev.writes = 1

\* v is what an assignment of this.defaultSettings[p] stores
IsDefaultOf(v, p) == IF v.t = "ref" THEN v.p = p ELSE v = defaultSettings.o[p]

\* C16: getSafeCopy never mutates its argument or the manager. After
\* getSafeCopy(s) the object s holds what it held, the returned object is not
\* s, and the current and last-saved wrappers (and defaultSettings) are as
\* they were.
C16_GetSafeCopyFrame ==
  [][lastOp'.op = "getSafeCopy"
       => /\ callerSettings' = lastOp'.arg
          /\ ~lastOp'.sameObject
          /\ currentSettingsWrapper' = currentSettingsWrapper
          /\ lastSavedSettingsWrapper' = lastSavedSettingsWrapper
          /\ defaultSettings' = defaultSettings]_vars

\* getSafeCopy was called with settings that hold two invalid properties
C16_Witness ==
  /\ lastOp.op = "getSafeCopy"
  /\ Get(lastOp.arg, "retries") = Num(-1)
  /\ Get(lastOp.arg, "since") = Null
  /\ callerSettings = lastOp.arg

\* C17: getSafeCopy result. The object getSafeCopy(s) resolves to has exactly
\* the schema's properties, and every property p that is not private holds a
\* value deep-equal to s[p] when p passes validation and to defaultSettings[p]
\* when it fails.
C17_GetSafeCopyResult ==
  lastOp.op = "getSafeCopy" =>
    /\ Keys(lastOp.ret) = propertyNames
    /\ \A p \in propertyNames :
         ~IsPrivate(p) =>
           IF MessageOf(lastOp.arg, p) = Str("")
             THEN deepEqual(Deref(Get(lastOp.ret, p)), Deref(Get(lastOp.arg, p)))
             ELSE deepEqual(Deref(Get(lastOp.ret, p)), defaultSettings.o[p])

\* C18: ensureSafe(s) sets, in place, s[p] to defaultSettings[p] for exactly
\* the properties p with a non-empty validation message on s; every other
\* property of s keeps its value, no property is added or removed otherwise,
\* and the manager's wrappers and defaultSettings are unchanged.
C18_EnsureSafe ==
  [][lastOp'.op = "ensureSafe"
       => /\ Keys(callerSettings') =
               Keys(lastOp'.arg) \cup
                 {p \in propertyNames : MessageOf(lastOp'.arg, p) # Str("")}
          /\ \A p \in Keys(callerSettings') :
               IF p \in propertyNames /\ MessageOf(lastOp'.arg, p) # Str("")
                 THEN IsDefaultOf(Get(callerSettings', p), p)
                 ELSE Get(callerSettings', p) = Get(lastOp'.arg, p)
          /\ currentSettingsWrapper' = currentSettingsWrapper
          /\ lastSavedSettingsWrapper' = lastSavedSettingsWrapper
          /\ defaultSettings' = defaultSettings]_vars

\* ensureSafe reset retries and kept the valid date of its argument
C18_Witness ==
  /\ lastOp.op = "ensureSafe"
  /\ Get(lastOp.arg, "retries") = Num(-1)
  /\ Get(lastOp.arg, "since") = DateV(1)
  /\ Get(callerSettings, "retries") = Num(3)
  /\ Get(callerSettings, "since") = DateV(1)
  /\ Get(callerSettings, "name") = Str("y")

\* C19: default settings are immutable. defaultSettings, nested contents
\* included, is what the constructor computed after any sequence of calls,
\* in-place edits of a settings object after a reset to the default included.
C19_DefaultsImmutable == defaultSettings = createDefaultSettings

\* v is, or holds at some depth, a property with a private name
RECURSIVE HasPrivateKey(_)
HasPrivateKey(v) ==
  /\ v.t = "object"
  /\ \E k \in Keys(v) : IsPrivate(k) \/ HasPrivateKey(v.o[k])

\* C20: private state never reaches storage. No record passed to the
\* persistence write, by saveToFile or by the write-back of loadFromFile,
\* holds a property with a private name at any depth, whatever the current
\* settings hold.
C20_PrivateNeverStored == lastOp.writes > 0 => ~HasPrivateKey(lastOp.written)

\* a record was written while the current settings held a changed _cache
C20_Witness ==
  /\ lastOp.writes > 0
  /\ lastOp.written.t = "object"
  /\ Get(currentSettingsWrapper.settings, "_cache") = Num(1)

\* the assignment of values to properties that a stored record holds
AssignmentOf(rawRecord) ==
  [p \in Keys(rawRecord) \cap propertyNames |-> TransformValueBack(rawRecord.o[p])]

\* C21: load and edit apply the same Snapshot-update rule. Loading a
\* structured record that holds an assignment of values to the schema's
\* properties and editing a default manager to those values produce the same
\* current wrapper: same settings, validationMessages and safeSettings.
C21_LoadEqualsEdit ==
  (/\ lastOp.op = "loadFromFile" /\ lastOp.structured
   /\ Keys(lastOp.loaded) \subseteq propertyNames)
    => currentSettingsWrapper =
         edit(createDefaultSettingsWrapper, AssignmentOf(lastOp.loaded), FALSE).w

\* C22: setProperty(p, v) returns the validation message of p computed after
\* the edit: the empty string exactly when the validator of p, if any,
\* accepts v against the resulting settings, the validator's message
\* otherwise, and always the entry of p in the current validationMessages.
C22_SetPropertyMessage ==
  lastOp.op = "setProperty" =>
    \A p \in DOMAIN lastOp.assign :
      /\ Get(currentSettingsWrapper.settings, p) = lastOp.assign[p]
      /\ lastOp.ret = Get(currentSettingsWrapper.validationMessages, p)
      /\ lastOp.ret =
           (IF p \in validators
              THEN Str(Validator(p, lastOp.assign[p], currentSettingsWrapper.settings))
              ELSE Str(""))

\* setProperty returned the validator's message for a rejected value
C22_Witness ==
  /\ lastOp.op = "setProperty"
  /\ lastOp.assign = [p \in {"retries"} |-> Num(-1)]
  /\ lastOp.ret = Str("retries must not be negative")

\* the number of times event e occurs in the sequence events
Count(events, e) == Cardinality({i \in DOMAIN events : events[i] = e})

C24_ValidateResult ==
  [][lastOp'.op = "validate"
       => /\ \A p \in propertyNames \cup Keys(lastOp'.ret) :
               LET m == ValidatorReturn(p, Get(lastOp'.arg, p), lastOp'.arg)
               IN IF p \in validators /\ m.t = "string" /\ m.s # ""
                    THEN p \in Keys(lastOp'.ret) /\ Get(lastOp'.ret, p) = m
                    ELSE p \notin Keys(lastOp'.ret)
          /\ callerSettings' = lastOp'.arg
          /\ currentSettingsWrapper' = currentSettingsWrapper
          /\ lastSavedSettingsWrapper' = lastSavedSettingsWrapper]_vars

\* validate was called on settings where one validator returned a message,
\* one returned the empty string or nothing, and two properties have none
C24_Witness ==
  /\ lastOp.op = "validate"
  /\ Get(lastOp.arg, "retries") = Num(5)
  /\ Get(lastOp.arg, "since") = Null
  /\ Keys(lastOp.ret) = {"since"}

\* C25: editAndSave composes edit then saveToFile. The save acts on the
\* wrapper the edit's re-validation pass left; when the editor function
\* throws, the error propagates, the call neither writes nor notifies, the
\* last-saved wrapper and the stored data stay, and the mutated current
\* settings remain in place.
C25_EditAndSave ==
  [][lastOp'.op = "editAndSave"
       => /\ currentSettingsWrapper'.settings =
               applyEditor(currentSettingsWrapper.settings, lastOp'.assign)
          /\ \A p \in propertyNames :
               Get(currentSettingsWrapper'.validationMessages, p) =
                 MessageOf(currentSettingsWrapper'.settings, p)
          /\ IF lastOp'.editorThrew
               THEN /\ lastOp'.threw
                    /\ lastOp'.writes = 0 /\ lastOp'.onSave = 0
                    /\ lastOp'.events = <<>>
                    /\ lastSavedSettingsWrapper' = lastSavedSettingsWrapper
                    /\ data' = data
               ELSE LET r == saveToFile(currentSettingsWrapper',
                                        lastSavedSettingsWrapper, Undef, FALSE)
                    IN /\ ~lastOp'.threw
                       /\ lastSavedSettingsWrapper' = r.last
                       /\ lastOp'.writes = r.writes
                       /\ lastOp'.written = r.written
                       /\ lastOp'.events = r.events]_vars

\* an editor changed name and threw while the manager was dirty
C25_Witness ==
  /\ lastOp.op = "editAndSave" /\ lastOp.editorThrew /\ lastOp.threw
  /\ lastOp.assign = [p \in {"name"} |-> Str("y")]
  /\ Get(currentSettingsWrapper.settings, "name") = Str("y")
  /\ lastOp.writes = 0
  /\ ~deepEqual(lastSavedSettingsWrapper.settings, currentSettingsWrapper.settings)

\* C26: type mismatch is non-fatal. When a loaded record holds for a known
\* property p a value whose typeof differs from that of defaultSettings[p],
\* loadFromFile warns about p, does not throw, and stores the value unchanged
\* as settings[p]; safeSettings[p] is the default only if the validator of p
\* rejects the value.
C26_TypeMismatchNonFatal ==
  (lastOp.op = "loadFromFile" /\ lastOp.structured) =>
    \A p \in Keys(lastOp.loaded) \cap propertyNames :
      TypeOf(lastOp.loaded.o[p]) # TypeOf(defaultSettings.o[p]) =>
        /\ p \in lastOp.warnType
        /\ ~lastOp.threw /\ lastOp.errors = 0
        /\ Get(currentSettingsWrapper.settings, p) = lastOp.loaded.o[p]
        /\ IF MessageOf(currentSettingsWrapper.settings, p) = Str("")
             THEN Get(currentSettingsWrapper.safeSettings, p) = lastOp.loaded.o[p]
             ELSE IsDefaultOf(Get(currentSettingsWrapper.safeSettings, p), p)

\* a record with a string for retries, which its validator accepts, and a
\* string for since, which its validator rejects, was loaded
C26_Witness ==
  /\ lastOp.op = "loadFromFile" /\ lastOp.structured
  /\ lastOp.warnType = {"retries", "name", "since"}
  /\ Get(currentSettingsWrapper.settings, "retries") = Str("5")
  /\ Get(currentSettingsWrapper.safeSettings, "retries") = Str("5")
  /\ Get(currentSettingsWrapper.settings, "since") = Str("2020-01-01")
  /\ Deref(Get(currentSettingsWrapper.safeSettings, "since")) = DateV(0)

\* C27: a fresh manager is clean. Right after construction the current and
\* the last-saved wrapper both hold settings and safeSettings equal to the
\* default settings, the property-name list is the default settings' own
\* keys, and a saveToFile performs no persistence write.
C27_FreshManagerClean ==
  /\ lastOp.op = "constructor" =>
       /\ \A w \in {currentSettingsWrapper, lastSavedSettingsWrapper} :
            /\ deepEqual(w.settings, defaultSettings)
            /\ deepEqual(w.safeSettings, defaultSettings)
       /\ propertyNames = Keys(defaultSettings)
  /\ (lastOp.op = "saveToFile" /\ prev.op = "constructor") =>
       /\ lastOp.writes = 0 /\ lastOp.onSave = 0
       /\ \A w \in {currentSettingsWrapper, lastSavedSettingsWrapper} :
            /\ deepEqual(w.settings, defaultSettings)
            /\ deepEqual(w.safeSettings, defaultSettings)

\* saveToFile was the first call on a fresh manager
C27_Witness ==
  /\ lastOp.op = "saveToFile" /\ prev.op = "constructor"
  /\ lastOp.clean

\* the steps that must have succeeded before a release step, in order:
\* argument validation, the git and GitHub-CLI checks, spellcheck, lint, build
GateSteps ==
  <<"validate", "checkGitInstalled", "checkGitRepoClean", "checkGitHubCliInstalled",
    "spellcheck", "lint", "buildPlugin">>

\* the release steps
ReleaseSteps ==
  {"getNewVersion", "updateVersionInFiles", "updateChangelog", "addUpdatedFilesToGit",
   "addGitTag", "gitPush", "copyUpdatedManifest", "publishGitHubRelease"}

\* C28: release gating in updateVersion. The steps run in the order
\* validation, git and GitHub-CLI checks, spellcheck, lint, production build;
\* a release step runs only after all of them have succeeded; after a step
\* failed no later step runs.
C28_ReleaseGating ==
  /\ \A i \in DOMAIN release.done :
       IF i <= Len(GateSteps)
         THEN release.done[i] = GateSteps[i]
         ELSE release.done[i] \in ReleaseSteps
  /\ release.failures # <<>> =>
       /\ release.state = "failed"
       /\ Len(release.failures) = 1
       /\ \A i \in DOMAIN release.done : release.done[i] # release.failures[1]
  /\ release.state = "succeeded" =>
       Len(release.done) = Len(GateSteps) + Cardinality(ReleaseSteps)

\* the build failed after every check before it had succeeded
C28_Witness ==
  /\ release.state = "failed"
  /\ release.failures = <<"buildPlugin">>
  /\ Len(release.done) = 6

\* C29: chain(app, fn) serialises work per app. Of two chain calls on the
\* same app the later one's function has started only if the earlier one's
\* has completed, the functions of one app start in call order, and no two
\* functions of the same app are in progress at the same time.
C29_ChainSerialises ==
  /\ \A i, j \in DOMAIN chainedPromise.calls :
       (i < j /\ chainedPromise.calls[i].app = chainedPromise.calls[j].app) =>
         /\ chainedPromise.calls[j].state # "pending" =>
              chainedPromise.calls[i].state = "settled"
         /\ ~(chainedPromise.calls[i].state = "running"
              /\ chainedPromise.calls[j].state = "running")
  /\ \A m, n \in DOMAIN chainedPromise.started :
       (m < n /\ chainedPromise.calls[chainedPromise.started[m]].app
                   = chainedPromise.calls[chainedPromise.started[n]].app) =>
         chainedPromise.started[m] < chainedPromise.started[n]

\* two calls on one app, the first function has thrown and the second is in
\* progress, while a function of the other app is in progress too
C29_Witness ==
  \E i, j, k \in DOMAIN chainedPromise.calls :
    /\ i < j
    /\ chainedPromise.calls[i].app = chainedPromise.calls[j].app
    /\ chainedPromise.calls[k].app # chainedPromise.calls[i].app
    /\ chainedPromise.calls[i].state = "settled"
    /\ chainedPromise.calls[i].threw
    /\ chainedPromise.calls[j].state = "running"
    /\ chainedPromise.calls[k].state = "running"

\* C30: Vault.process never overwrites a concurrent change. A step of process
\* changes the file's content only at the write of an attempt whose read
\* content is the content the file has at that moment, and then to the new
\* content; a write that finds other content leaves the content as it is and
\* ends the attempt with failure, so that either a new attempt starts with a
\* read or the retries are used up; process completes only in a step that
\* applied the write or found the file missing with shouldFailOnMissingFile
\* off.
C30_NoOverwrite ==
  [][ (vault'.actor = "process" /\ vault' # vault) =>
        /\ vault'.exists = vault.exists
        /\ vault'.content # vault.content =>
             /\ vault.pc = "write"
             /\ vault.content = vault.oldContent
             /\ vault'.content = vault.newContent.s
        /\ (vault.pc = "write" /\ vault.exists /\ vault.content # vault.oldContent) =>
             /\ vault'.content = vault.content
             /\ vault'.pc \in {"read", "failed"}
             /\ vault'.pc = "read" => vault'.attempt = vault.attempt + 1
             /\ ~vault'.applied
        /\ (vault'.pc = "done" /\ vault.pc # "done") =>
             \/ /\ vault.pc = "write"
                /\ vault.exists
                /\ vault.content = vault.oldContent
                /\ vault'.content = vault.newContent.s
                /\ vault'.applied
             \/ /\ ~vault.exists
                /\ ~vault.shouldFailOnMissingFile
                /\ vault'.tolerated
    ]_vars

\* the write of the first attempt was refused because another writer had
\* changed the file after the read: the file keeps the other writer's content
\* and the second attempt is about to read
C30_Witness ==
  /\ vault.pc = "read"
  /\ vault.attempt = 2
  /\ vault.newContent # Null
  /\ vault.exists
  /\ vault.content # vault.oldContent
  /\ vault.content # vault.newContent.s

\* C31: Vault.process on a missing or deleted file. When a step of process
\* finds the file missing, at the read or at the write of an attempt: with
\* shouldFailOnMissingFile the attempt throws; without it process completes
\* without error and without writing anything.
C31_MissingFile ==
  [][ (vault'.actor = "process" /\ vault' # vault
       /\ vault.pc \in {"read", "write"} /\ ~vault.exists) =>
        IF vault.shouldFailOnMissingFile
          THEN /\ vault'.pc = "failed"
               /\ vault'.threw
               /\ ~vault'.exists
          ELSE /\ vault'.pc = "done"
               /\ ~vault'.threw
               /\ vault'.tolerated
               /\ ~vault'.applied
               /\ ~vault'.exists
               /\ vault'.content = vault.content
    ]_vars

\* the file disappeared between the read and the write of an attempt and
\* process completed without error
C31_Witness ==
  /\ vault.pc = "done"
  /\ vault.tolerated
  /\ ~vault.shouldFailOnMissingFile
  /\ vault.newContent # Null
  /\ ~vault.exists
  /\ ~vault.threw

\* C32: createTempFolder / createTempFile cleanup. Once the returned function
\* has run, the vault holds exactly the folders and files it held before the
\* call: everything the call created is deleted and nothing else; when the
\* target existed before the call the returned function deletes nothing.
C32_TempCleanup ==
  temp.pc = "cleaned" =>
    /\ temp.fs = temp.before
    /\ notDeleted(temp.before, temp.target) => temp.cleanup = <<>>

\* the properties whose value in the current settings differs from the value
\* they had when the suspended saveToFile was called
EditedWhileSaving ==
  {p \in propertyNames :
     Get(currentSettingsWrapper.settings, p) # Get(saving.atCall, p)}

\* what plugin.loadData() would read for p had settings been written
StoredValue(settings, p) == Get(Persisted(settingsToRawRecord(settings)), p)

C34_SafeSettingsValid ==
  /\ validate(currentSettingsWrapper.safeSettings) = Obj(EmptyFn)
  /\ lastOp.op = "ensureSafe" => validate(callerSettings) = Obj(EmptyFn)

\* C34 amended: the same for the validators whose verdict depends on nothing
\* but the value of their own property and which accept the default value:
\* none of them yields a message on the current safeSettings, nor on s after
\* ensureSafe(s).
C34_SafeSettingsValidOwn ==
  /\ Keys(validate(currentSettingsWrapper.safeSettings)) \cap ownValueValidators = {}
  /\ lastOp.op = "ensureSafe" =>
       Keys(validate(callerSettings)) \cap ownValueValidators = {}

\* ensureSafe has replaced a negative retries by the default, and the
\* cross-field validator of name rejects the result
C34_Witness ==
  /\ lastOp.op = "ensureSafe"
  /\ Get(lastOp.arg, "retries") = Num(-1)
  /\ Get(callerSettings, "retries") = Num(3)
  /\ Keys(validate(callerSettings)) = {"name"}

\* C35: setProperty(p, v) edits exactly one property. The call leaves
\* current.settings[q] as it was for every property q other than p, leaves
\* the last-saved wrapper as it was, and the validationMessages and
\* safeSettings entries of every property are those that validating the
\* resulting settings gives.
C35_SetPropertyFrame ==
  [][lastOp'.op = "setProperty" =>
       /\ Keys(currentSettingsWrapper'.settings) = Keys(currentSettingsWrapper.settings)
       /\ \A q \in Keys(currentSettingsWrapper.settings) \ DOMAIN lastOp'.assign :
            Get(currentSettingsWrapper'.settings, q) = Get(currentSettingsWrapper.settings, q)
       /\ lastSavedSettingsWrapper' = lastSavedSettingsWrapper
       /\ data' = data
       /\ \A q \in propertyNames :
            /\ Get(currentSettingsWrapper'.validationMessages, q) =
                 MessageOf(currentSettingsWrapper'.settings, q)
            /\ Get(currentSettingsWrapper'.safeSettings, q) =
                 IF MessageOf(currentSettingsWrapper'.settings, q) # Str("")
                   THEN defaultSettings.o[q]
                   ELSE Get(currentSettingsWrapper'.settings, q)]_vars

\* setProperty('retries', 3) kept the name 'y' that an earlier call had set,
\* and the re-validation gave name a message and masked it in safeSettings
C35_Witness ==
  /\ lastOp.op = "setProperty"
  /\ DOMAIN lastOp.assign = {"retries"}
  /\ Get(currentSettingsWrapper.settings, "retries") = Num(3)
  /\ Get(currentSettingsWrapper.settings, "name") = Str("y")
  /\ Get(currentSettingsWrapper.validationMessages, "name") # Str("")
  /\ Get(currentSettingsWrapper.safeSettings, "name") = Str("x")
  /\ prev.op = "setProperty"

\* C36: a failed read leaves the manager untouched. When plugin.loadData()
\* fails during loadFromFile, the call fails, the current and the last-saved
\* wrapper are what they were before the call, nothing is written and
\* plugin.onLoadSettings is not called.
C36_FailedRead ==
  [][(lastOp'.op = "loadFromFile" /\ lastOp'.readFails) =>
       /\ lastOp'.threw
       /\ currentSettingsWrapper' = currentSettingsWrapper
       /\ lastSavedSettingsWrapper' = lastSavedSettingsWrapper
       /\ data' = data
       /\ lastOp'.writes = 0
       /\ lastOp'.onLoad = 0
       /\ lastOp'.events = <<>>]_vars

\* a load failed at the read while the current settings held an edited
\* value and the last-saved wrapper came from an earlier load
C36_Witness ==
  /\ lastOp.op = "loadFromFile"
  /\ lastOp.readFails
  /\ lastOp.threw
  /\ Get(currentSettingsWrapper.settings, "name") = Str("y")
  /\ Get(currentSettingsWrapper.settings, "retries") = Num(-1)
  /\ lastSavedSettingsWrapper # createDefaultSettingsWrapper

\* the files and folders the last deleteSafe call removed
Trashed == deletion.before \ deletion.exists

\* C37: deleteSafe protects used attachments. After a deleteSafe call: no
\* file that has a backlink from an existing note other than deletedNotePath
\* was trashed, and the call returned false when the target is such a file;
\* a folder was trashed only if nothing it held is left and no file it held
\* is used; the call returned true only if the target no longer exists;
\* nothing outside the target was trashed.
C37_DeleteSafe ==
  deletion.pc = "done" =>
    /\ \A f \in DeleteFiles \cap deletion.before :
         backlinks(deletion.before, deletion.links, f, deletion.deletedNotePath)
             \cap (deletion.exists \cup OutsideNotes) # {}
           => /\ f \in deletion.exists
              /\ f = deletion.target => ~deletion.ret
    /\ \A d \in DeleteFolders \cap Trashed :
         /\ Descendants(d) \cap deletion.exists = {}
         /\ \A c \in Descendants(d) \cap DeleteFiles \cap deletion.before :
              backlinks(deletion.exists, deletion.links, c, deletion.deletedNotePath) = {}
    /\ deletion.ret => deletion.target \notin deletion.exists
    /\ Trashed \subseteq {deletion.target} \cup Descendants(deletion.target)

\* deleteSafe('D', 'n1') trashed D/f1, which only n1 linked to, then found
\* D/E/g used by n2 and left it, D/E and D in place
C37_Witness ==
  /\ deletion.pc = "done"
  /\ deletion.target = "D"
  /\ deletion.deletedNotePath = "n1"
  /\ ~deletion.ret
  /\ "D/f1" \in Trashed
  /\ <<"n1", "D/f1">> \in deletion.links
  /\ <<"n2", "D/E/g">> \in deletion.links
  /\ {"D", "D/E", "D/E/g"} \subseteq deletion.exists

\* semantic-version precedence of two versions M.m.p[-beta.b]: a is lower
\* than b
Precedes(a, b) ==
  \/ a.major < b.major
  \/ a.major = b.major /\ a.minor < b.minor
  \/ a.major = b.major /\ a.minor = b.minor /\ a.patch < b.patch
  \/ /\ a.major = b.major /\ a.minor = b.minor /\ a.patch = b.patch
     /\ a.suffix # <<>>
     /\ IF b.suffix = <<>> THEN TRUE ELSE a.suffix[2] < b.suffix[2]

\* C38: version bump arithmetic in getNewVersion. From M.m.p[-beta.b]: major
\* gives (M+1).0.0, minor M.(m+1).0, patch M.m.(p+1), beta M.m.p-beta.(b+1)
\* with b = 0 when absent, an explicit version is returned unchanged; for
\* major, minor, patch and beta the result is higher than the current version
\* in semantic-version precedence.
C38_VersionBump ==
  version.pc = "done" =>
    LET c == version.current
        b == IF c.suffix = <<>> THEN 0 ELSE c.suffix[2]
        t == getVersionUpdateType(version.versionUpdateType)
    IN /\ t = "major" => version.result = Version(c.major + 1, 0, 0, <<>>)
       /\ t = "minor" => version.result = Version(c.major, c.minor + 1, 0, <<>>)
       /\ t = "patch" => version.result = Version(c.major, c.minor, c.patch + 1, <<>>)
       /\ t = "beta" =>
            version.result = Version(c.major, c.minor, c.patch, <<"beta", b + 1>>)
       /\ t = "manual" => version.result = [text |-> version.versionUpdateType]
       /\ t \in {"major", "minor", "patch", "beta"} => Precedes(c, version.result)

====
